---- MODULE Spec2Model ----
(***************************************************************************)
(* Layout editor of oliver-nce/nce: the data manager                        *)
(* (LayoutEditorDataManager, v1.0.67: rawFields / shadowJSON /              *)
(* virtualOrder) and the part of LayoutEditorWidget that commits changes.   *)
(*                                                                          *)
(* Indices are the JavaScript ones (0-based) in every action parameter and  *)
(* in every idx entry of the change set; sequences are 1-based, so element  *)
(* i of a JavaScript array is s[i + 1].                                     *)
(***************************************************************************)
EXTENDS Integers, Sequences, FiniteSets, TLC

\* ------------------------------------------------------------------------
\* Bounds of the model
\* ------------------------------------------------------------------------

\* Longest field list of the enumerated family (every sequence of field
\* types up to this length is loaded; the named scenario lists are longer).
MaxLen == 3

\* Number of data-manager / widget calls explored after a load.
MaxOps == 3

\* Longest field list of the family the parser and the flattening are run on.
RoundTripLen == 5

\* ------------------------------------------------------------------------
\* Field descriptors
\* ------------------------------------------------------------------------

TabBreak == "Tab Break"
SectionBreak == "Section Break"
ColumnBreak == "Column Break"
Data == "Data"

FieldTypes == {TabBreak, SectionBreak, ColumnBreak, Data}

isTabBreak(fieldtype) == fieldtype = TabBreak

isSectionBreak(fieldtype) == fieldtype = SectionBreak

isColumnBreak(fieldtype) == fieldtype = ColumnBreak

\* A descriptor as the server sends it: label "x", no width, not collapsible.
Field(name, type) ==
    [fieldname |-> name, fieldtype |-> type, label |-> "x", columns |-> 0,
     collapsible |-> 0]

\* Names of the descriptors of the enumerated lists, by position.
Names == <<"a", "b", "c", "d", "e", "f", "g", "h">>

\* Names the parser gives to containers it creates on demand.
DefaultTabName == "_default_tab"
DefaultSectionName == "_default_section"

\* String.prototype.startsWith('_') on the names that occur in the model.
StartsWithUnderscore(name) == name \in {DefaultTabName, DefaultSectionName}

\* columnBreakFieldname of a column that has none (absent / null).
NoBreak == "<none>"

\* The value of [x] = [].splice(...) : undefined.
Undefined == "<undefined>"

\* Every sequence of field types of length n.
TypeSeqs(n) == [1..n -> FieldTypes]

ListOfTypes(ts) == [i \in 1..Len(ts) |-> Field(Names[i], ts[i])]

EnumeratedLists == UNION {{ListOfTypes(ts) : ts \in TypeSeqs(n)} : n \in 1..MaxLen}

\* The section of the "column to first" example: columns (f1, f2),
\* (m1 of width 4: f3), (m2 of width 6: f4).
ColumnScenarioList ==
    <<Field("S", SectionBreak), Field("f1", Data), Field("f2", Data),
      [Field("m1", ColumnBreak) EXCEPT !.columns = 4], Field("f3", Data),
      [Field("m2", ColumnBreak) EXCEPT !.columns = 6], Field("f4", Data)>>

\* Three sections A, B, C in one (default) tab.
SectionScenarioList ==
    <<Field("A", SectionBreak), Field("a1", Data),
      Field("B", SectionBreak), Field("b1", Data),
      Field("C", SectionBreak)>>

\* Two tabs, the second one opening with data fields and a column break
\* (default section in the second tab).
TabScenarioList ==
    <<Field("T1", TabBreak), Field("S1", SectionBreak), Field("g1", Data),
      Field("T2", TabBreak), Field("g2", Data), Field("k1", ColumnBreak),
      Field("g3", Data)>>

\* One column fixed at 10 and one auto column: columns (f1), (m1 of width
\* 10: f2), (m2: f3).
WidthScenarioList ==
    <<Field("S", SectionBreak), Field("f1", Data),
      [Field("m1", ColumnBreak) EXCEPT !.columns = 10], Field("f2", Data),
      Field("m2", ColumnBreak), Field("f3", Data)>>

\* The lists loaded for the width edits.
WidthLists == {WidthScenarioList, ColumnScenarioList, TabScenarioList}

ScenarioLists == {ColumnScenarioList, SectionScenarioList, TabScenarioList}

\* The lists load_doctype_json may return.
FieldLists == EnumeratedLists \cup ScenarioLists

\* ------------------------------------------------------------------------
\* Small helpers for JavaScript arrays and objects
\* ------------------------------------------------------------------------

\* obj[k] = v on an object held as a function.
ObjSet(obj, k, v) == [x \in (DOMAIN obj) \cup {k} |-> IF x = k THEN v ELSE obj[x]]

EmptyObj == <<>>

\* The array without its element at 0-based index i (i in range).
RemoveAt(s, i) == [k \in 1..(Len(s) - 1) |-> IF k <= i THEN s[k] ELSE s[k + 1]]

\* The array with x inserted so that it gets 0-based index i (0 <= i <= length).
InsertAt(s, i, x) ==
    [k \in 1..(Len(s) + 1) |-> IF k <= i THEN s[k] ELSE IF k = i + 1 THEN x ELSE s[k - 1]]

\* How Array.prototype.splice normalises its start argument.
SpliceStart(len, start) ==
    IF start < 0 THEN (IF len + start < 0 THEN 0 ELSE len + start)
    ELSE IF start > len THEN len ELSE start

\* MoveElement exchanging the elements at i and j instead.
MoveElementSwaps(s, i, j) ==
    [k \in 1..Len(s) |-> IF k = i + 1 THEN s[j + 1] ELSE IF k = j + 1 THEN s[i + 1] ELSE s[k]]

\* const [x] = s.splice(i, 1); s.splice(j, 0, x)   for i, j in range
MoveElement(s, i, j) == InsertAt(RemoveAt(s, i), j, s[i + 1])

\* Replace the last element of a non-empty array.
SetLast(s, x) == [s EXCEPT ![Len(s)] = x]

Last(s) == s[Len(s)]

\* 0-based index of the first descriptor named name, or -1.
RECURSIVE FindIndexFrom(_, _, _)
FindIndexFrom(fields, name, k) ==
    IF k > Len(fields) THEN -1
    ELSE IF fields[k].fieldname = name THEN k - 1
    ELSE FindIndexFrom(fields, name, k + 1)

FindIndex(fields, name) == FindIndexFrom(fields, name, 1)

HasField(fields, name) == FindIndex(fields, name) >= 0

\* fields.find(f => f.fieldname === name), when HasField(fields, name).
FindField(fields, name) == fields[FindIndex(fields, name) + 1]

FieldNames(fields) == [i \in 1..Len(fields) |-> fields[i].fieldname]

\* 0-based index of the last descriptor named name, or -1: the value
\* originalIdxMap[name] is left with after the forEach over rawFields.
RECURSIVE FindIndexLastFrom(_, _, _)
FindIndexLastFrom(fields, name, k) ==
    IF k < 1 THEN -1
    ELSE IF fields[k].fieldname = name THEN k - 1
    ELSE FindIndexLastFrom(fields, name, k - 1)

FindIndexLast(fields, name) == FindIndexLastFrom(fields, name, Len(fields))

\* ------------------------------------------------------------------------
\* buildVirtualOrder: the structural parser
\* ------------------------------------------------------------------------

\* The cursors currentTab / currentSection / currentColumn of the parser are
\* references to the last tab, the last section of the last tab and the
\* last column of that section (containers are only ever pushed at the
\* end), so the parser state keeps whether each cursor is non-null.
ParserStart == [tabs |-> <<>>, tab |-> FALSE, section |-> FALSE, column |-> FALSE]

DefaultTab == [label |-> "Details", fieldname |-> DefaultTabName, sections |-> <<>>]

\* currentTab.sections.push(section)
PushSection(tabs, section) ==
    SetLast(tabs, [Last(tabs) EXCEPT !.sections = Append(@, section)])

\* currentSection.columns.push(column)
PushColumn(tabs, column) ==
    SetLast(tabs,
        [Last(tabs) EXCEPT !.sections =
            SetLast(@, [Last(@) EXCEPT !.columns = Append(@, column)])])

\* PushFieldname assigning the array instead of pushing: the names the
\* column held are discarded.
PushFieldnameReplaces(tabs, name) ==
    SetLast(tabs,
        [Last(tabs) EXCEPT !.sections =
            SetLast(@, [Last(@) EXCEPT !.columns =
                SetLast(@, [Last(@) EXCEPT !.fieldnames = <<name>>])])])

\* currentColumn.fieldnames.push(fieldname)
PushFieldname(tabs, name) ==
    SetLast(tabs,
        [Last(tabs) EXCEPT !.sections =
            SetLast(@, [Last(@) EXCEPT !.columns =
                SetLast(@, [Last(@) EXCEPT !.fieldnames = Append(@, name)])])])

\* if (!currentTab) { currentTab = default tab; tabs.push(currentTab) }
EnsureTab(st) ==
    IF st.tab THEN st
    ELSE [st EXCEPT !.tabs = Append(@, DefaultTab), !.tab = TRUE]

\* if (!currentSection) { currentSection = default section; push }
EnsureSection(st) ==
    IF st.section THEN st
    ELSE [st EXCEPT
            !.tabs = PushSection(@, [fieldname |-> DefaultSectionName, columns |-> <<>>]),
            !.section = TRUE]

\* if (!currentColumn) { currentColumn = { fieldnames: [] }; push }
EnsureColumn(st) ==
    IF st.column THEN st
    ELSE [st EXCEPT
            !.tabs = PushColumn(@, [columnBreakFieldname |-> NoBreak, fieldnames |-> <<>>]),
            !.column = TRUE]

\* One iteration of the forEach of buildVirtualOrder.
ParseField(st, field) ==
    IF isTabBreak(field.fieldtype) THEN
        [tabs |-> Append(st.tabs,
                    [label |-> IF field.label = "" THEN "Details" ELSE field.label,
                     fieldname |-> field.fieldname,
                     sections |-> <<>>]),
         tab |-> TRUE, section |-> FALSE, column |-> FALSE]
    ELSE IF isSectionBreak(field.fieldtype) THEN
        LET s1 == EnsureTab(st)
            withSection == PushSection(s1.tabs,
                              [fieldname |-> field.fieldname, columns |-> <<>>])
        IN  [tabs |-> PushColumn(withSection,
                         [columnBreakFieldname |-> NoBreak, fieldnames |-> <<>>]),
             tab |-> TRUE, section |-> TRUE, column |-> TRUE]
    ELSE IF isColumnBreak(field.fieldtype) THEN
        LET s1 == IF st.section THEN st ELSE EnsureSection(EnsureTab(st))
        IN  [tabs |-> PushColumn(s1.tabs,
                         [columnBreakFieldname |-> field.fieldname, fieldnames |-> <<>>]),
             tab |-> s1.tab, section |-> TRUE, column |-> TRUE]
    ELSE
        LET s1 == EnsureColumn(EnsureSection(EnsureTab(st)))
        IN  [s1 EXCEPT !.tabs = PushFieldname(@, field.fieldname)]

RECURSIVE ParseFrom(_, _, _)
ParseFrom(fields, k, st) ==
    IF k > Len(fields) THEN st
    ELSE ParseFrom(fields, k + 1, ParseField(st, fields[k]))

\* this.virtualOrder after buildVirtualOrder() on shadowJSON = fields.
buildVirtualOrder(fields) ==
    [tabs |-> ParseFrom(fields, 1, ParserStart).tabs, currentTab |-> 0]

\* ------------------------------------------------------------------------
\* buildStructure: the render tree from virtualOrder + shadowJSON
\* ------------------------------------------------------------------------

\* A column width: 'auto' or a number of grid slots.
AutoWidth == [auto |-> TRUE, n |-> 0]

FixedWidth(n) == [auto |-> FALSE, n |-> n]

\* getFieldFromShadow answering with the first descriptor when the name is
\* not found.
getFieldFromShadowFallsBack(fields, name) ==
    LET idx == FindIndex(fields, name)
    IN  IF idx >= 0 THEN <<fields[idx + 1]>>
        ELSE IF Len(fields) > 0 THEN <<fields[1]>> ELSE <<>>

\* getFieldFromShadow(name) as an array: the descriptor found, or nothing.
getFieldFromShadow(fields, name) ==
    LET idx == FindIndex(fields, name)
    IN  IF idx >= 0 THEN <<fields[idx + 1]>> ELSE <<>>

\* The descriptors of names that resolve in fields, in order (forEach with
\* `if (field) push`).
RECURSIVE ResolveFrom(_, _, _)
ResolveFrom(fields, names, k) ==
    IF k > Len(names) THEN <<>>
    ELSE getFieldFromShadow(fields, names[k]) \o ResolveFrom(fields, names, k + 1)

Resolve(fields, names) == ResolveFrom(fields, names, 1)

StructureColumn(fields, vColumn) ==
    LET cbField == IF vColumn.columnBreakFieldname # NoBreak
                   THEN getFieldFromShadow(fields, vColumn.columnBreakFieldname)
                   ELSE <<>>
    IN  [fields |-> Resolve(fields, vColumn.fieldnames),
         columnBreakFieldname |-> vColumn.columnBreakFieldname,
         width |-> IF cbField # <<>> /\ cbField[1].columns # 0
                   THEN FixedWidth(cbField[1].columns) ELSE AutoWidth]

StructureSection(fields, vSection) ==
    LET sectionField == getFieldFromShadow(fields, vSection.fieldname)
    IN  [label |-> IF sectionField # <<>> THEN sectionField[1].label ELSE "",
         fieldname |-> vSection.fieldname,
         collapsible |-> IF sectionField # <<>> THEN sectionField[1].collapsible ELSE 0,
         columns |-> [c \in 1..Len(vSection.columns) |->
                        StructureColumn(fields, vSection.columns[c])]]

StructureTab(fields, vTab) ==
    [label |-> vTab.label,
     fieldname |-> vTab.fieldname,
     sections |-> [s \in 1..Len(vTab.sections) |->
                    StructureSection(fields, vTab.sections[s])]]

\* this.structure after buildStructure().
buildStructure(vo, fields) ==
    [tabs |-> [t \in 1..Len(vo.tabs) |-> StructureTab(fields, vo.tabs[t])],
     currentTab |-> vo.currentTab]

\* ------------------------------------------------------------------------
\* applyVirtualOrder / trackIdxChanges: flatten and position diff
\* ------------------------------------------------------------------------

\* FlattenColumns with `colIdx > 1` for `colIdx > 0`: the column break of
\* column 1 is not emitted.
RECURSIVE FlattenColumnsOffByOne(_, _, _)
FlattenColumnsOffByOne(fields, columns, c) ==
    IF c > Len(columns) THEN <<>>
    ELSE (IF c - 1 > 1 /\ columns[c].columnBreakFieldname # NoBreak
            THEN Resolve(fields, <<columns[c].columnBreakFieldname>>) ELSE <<>>)
         \o Resolve(fields, columns[c].fieldnames)
         \o FlattenColumnsOffByOne(fields, columns, c + 1)

RECURSIVE FlattenColumns(_, _, _)
FlattenColumns(fields, columns, c) ==
    IF c > Len(columns) THEN <<>>
    ELSE (IF c - 1 > 0 /\ columns[c].columnBreakFieldname # NoBreak
            THEN Resolve(fields, <<columns[c].columnBreakFieldname>>) ELSE <<>>)
         \o Resolve(fields, columns[c].fieldnames)
         \o FlattenColumns(fields, columns, c + 1)

\* FlattenSections without the section's own descriptor.
RECURSIVE FlattenSectionsSkipsMarker(_, _, _)
FlattenSectionsSkipsMarker(fields, sections, s) ==
    IF s > Len(sections) THEN <<>>
    ELSE FlattenColumns(fields, sections[s].columns, 1)
         \o FlattenSectionsSkipsMarker(fields, sections, s + 1)

RECURSIVE FlattenSections(_, _, _)
FlattenSections(fields, sections, s) ==
    IF s > Len(sections) THEN <<>>
    ELSE (IF ~StartsWithUnderscore(sections[s].fieldname)
            THEN Resolve(fields, <<sections[s].fieldname>>) ELSE <<>>)
         \o FlattenColumns(fields, sections[s].columns, 1)
         \o FlattenSections(fields, sections, s + 1)

RECURSIVE FlattenTabs(_, _, _)
FlattenTabs(fields, tabs, t) ==
    IF t > Len(tabs) THEN <<>>
    ELSE (IF ~StartsWithUnderscore(tabs[t].fieldname)
            THEN Resolve(fields, <<tabs[t].fieldname>>) ELSE <<>>)
         \o FlattenSections(fields, tabs[t].sections, 1)
         \o FlattenTabs(fields, tabs, t + 1)

\* reorderedFields of applyVirtualOrder.
reorderedFields(vo, fields) == FlattenTabs(fields, vo.tabs, 1)

\* TrackOne recording the original index instead of the new one.
TrackOneOriginalIdx(chg, raw, field, newIdx) ==
    IF HasField(raw, field.fieldname) /\ FindIndexLast(raw, field.fieldname) # newIdx
    THEN ObjSet(chg, field.fieldname,
            ObjSet(IF field.fieldname \in DOMAIN chg THEN chg[field.fieldname] ELSE EmptyObj,
                   "idx", FindIndexLast(raw, field.fieldname)))
    ELSE chg

\* One iteration of the second forEach of trackIdxChanges (newIdx 0-based).
TrackOne(chg, raw, field, newIdx) ==
    IF HasField(raw, field.fieldname) /\ FindIndexLast(raw, field.fieldname) # newIdx
    THEN ObjSet(chg, field.fieldname,
            ObjSet(IF field.fieldname \in DOMAIN chg THEN chg[field.fieldname] ELSE EmptyObj,
                   "idx", newIdx))
    ELSE chg

RECURSIVE TrackFrom(_, _, _, _)
TrackFrom(chg, raw, fields, k) ==
    IF k > Len(fields) THEN chg
    ELSE TrackFrom(TrackOne(chg, raw, fields[k], k - 1), raw, fields, k + 1)

\* this.changes after trackIdxChanges().
trackIdxChanges(chg, raw, fields) == TrackFrom(chg, raw, fields, 1)

\* ------------------------------------------------------------------------
\* State
\* ------------------------------------------------------------------------

VARIABLES
    rawFields,          \* LayoutEditorDataManager.rawFields (pristine list)
    shadowJSON,         \* LayoutEditorDataManager.shadowJSON (working copy)
    virtualOrder,       \* LayoutEditorDataManager.virtualOrder (names only)
    structure,          \* LayoutEditorDataManager.structure (render tree)
    doctype,            \* LayoutEditorDataManager.doctype
    changes,            \* LayoutEditorDataManager.changes
    hasUnsavedChanges,  \* LayoutEditorDataManager.hasUnsavedChanges
    hasOrderChanges,    \* LayoutEditorDataManager.hasOrderChanges
    previewBtnDisabled, \* LayoutEditorWidget.previewBtn.disabled
    saveRequests,       \* save_field_changes calls in flight (their changes argument)
    currentColumn,      \* LayoutEditorPropertiesPanel.currentColumn.columnBreakField
    frm,                \* the Layout Editor form: frm.doc, its button, its calls
    lastOp,             \* the last call made, its arguments and its result
    nOps                \* number of calls that took effect since the load

dmVars == <<rawFields, shadowJSON, virtualOrder, structure, doctype, changes,
            hasUnsavedChanges, hasOrderChanges>>

widgetVars == <<previewBtnDisabled, saveRequests, currentColumn>>

vars == <<rawFields, shadowJSON, virtualOrder, structure, doctype, changes,
          hasUnsavedChanges, hasOrderChanges, previewBtnDisabled, saveRequests,
          currentColumn, frm, lastOp, nOps>>

\* this.doctype = null
NoDoctype == "<null>"

\* this.structure.currentTab = null
NullTab == -1

\* hasChanges()
hasChanges == hasUnsavedChanges \/ hasOrderChanges

Op(name, ok, args) == [op |-> name, ok |-> ok, args |-> args]

\* constructor() of the data manager, createToolbar() of the widget, and
\* the Layout Editor form as opened: no text in json_editor,
\* frm.doc.__validated and frm.doc.__json_changed not set, no Update
\* Properties button, no call in flight. validating and updating hold the
\* json_str of the validate_json_for_customizations and update_properties
\* calls in flight; passed is the json_str of the last validation that
\* succeeded and applied that of the last update that did; n counts the
\* user's actions.
Init ==
    /\ rawFields = <<>>
    /\ shadowJSON = <<>>
    /\ virtualOrder = [tabs |-> <<>>, currentTab |-> 0]
    /\ structure = [tabs |-> <<>>, currentTab |-> NullTab]
    /\ doctype = NoDoctype
    /\ changes = EmptyObj
    /\ hasUnsavedChanges = FALSE
    /\ hasOrderChanges = FALSE
    /\ previewBtnDisabled = TRUE
    /\ saveRequests = <<>>
    /\ currentColumn = NoBreak
    /\ frm = [json_editor |-> "", validated |-> FALSE, json_changed |-> FALSE,
              update_button |-> FALSE, validating |-> <<>>, updating |-> <<>>,
              passed |-> "", applied |-> "", n |-> 0]
    /\ lastOp = Op("constructor", TRUE, <<>>)
    /\ nOps = 0

\* A call that is rejected: it returns false and assigns nothing.
Rejected(name) ==
    /\ lastOp' = Op(name, FALSE, <<>>)
    /\ UNCHANGED <<dmVars, widgetVars, frm, nOps>>

\* onChangeCallback, which the widget sets to onDataChanged()
onDataChanged == previewBtnDisabled' = FALSE

\* ------------------------------------------------------------------------
\* Load
\* ------------------------------------------------------------------------

\* The load without the widget's clearChanges(): the change set and the
\* dirty flags of the session before are kept.
loadDocTypeKeepsChanges(doctypeName, fields) ==
    /\ rawFields' = fields
    /\ shadowJSON' = fields
    /\ doctype' = doctypeName
    /\ virtualOrder' = buildVirtualOrder(fields)
    /\ structure' = buildStructure(virtualOrder', shadowJSON')
    /\ previewBtnDisabled' = TRUE
    /\ UNCHANGED <<changes, hasUnsavedChanges, hasOrderChanges, saveRequests,
                   currentColumn, frm>>
    /\ lastOp' = Op("loadDocType", TRUE, <<hasChanges>>)
    /\ nOps' = 0

\* LayoutEditorWidget.loadDocType(doctypeName) with a response whose
\* fields_json parses to the list fields: the callback of
\* LayoutEditorDataManager.loadDocType, then clearChanges() and the toolbar.
\* lastOp keeps, in place of arguments, whether the session that is replaced
\* had pending changes.
loadDocTypeResponse(doctypeName, fields) ==
    /\ rawFields' = fields
    /\ shadowJSON' = fields
    /\ doctype' = doctypeName
    /\ virtualOrder' = buildVirtualOrder(fields)
    /\ structure' = buildStructure(virtualOrder', shadowJSON')
    /\ changes' = EmptyObj
    /\ hasUnsavedChanges' = FALSE
    /\ hasOrderChanges' = FALSE
    /\ previewBtnDisabled' = TRUE
    /\ UNCHANGED <<saveRequests, currentColumn, frm>>
    /\ lastOp' = Op("loadDocType", TRUE, <<hasChanges>>)
    /\ nOps' = 0

\* The first load of a session.
LoadDocType(fields) ==
    /\ doctype = NoDoctype
    /\ loadDocTypeResponse("DocType", fields)

\* What JSON.parse(fields_json) gives when fields_json is the text of a JSON
\* object: a value without forEach. It is held in rawFields and shadowJSON
\* as this one-element list, which no parsed list equals.
NotAnArray == <<Field("<object>", "<object>")>>

\* A null element of the parsed fields_json.
NullElement == Field("<null>", "<null>")

\* Every element is a descriptor the parser can read.
Parsed(fields) == \A i \in 1..Len(fields) : fields[i].fieldtype \in FieldTypes

\* The ways fields_json can fail to parse into a structure.
ParseFailures == {"invalid JSON", "not a list", "null element"}

\* LayoutEditorWidget.loadDocType(doctypeName) with a response whose
\* fields_json does not parse into a structure; the promise is rejected and
\* the widget's catch block reports the error.
\*  - invalid JSON: JSON.parse throws before anything is assigned;
\*  - not a list: rawFields, shadowJSON and doctype are assigned,
\*    buildVirtualOrder resets virtualOrder, then shadowJSON.forEach throws;
\*  - null element: as before, and the forEach throws on reading
\*    field.fieldtype of the null element, after parsing the elements
\*    before it (fields).
\* buildStructure() and the widget's clearChanges() are not reached.
loadDocTypeFails(doctypeName, failure, fields) ==
    /\ IF failure = "invalid JSON"
       THEN UNCHANGED <<rawFields, shadowJSON, doctype, virtualOrder>>
       ELSE
           LET parsed == IF failure = "not a list" THEN NotAnArray
                         ELSE fields \o <<NullElement>>
               read == IF failure = "not a list" THEN <<>> ELSE fields
           IN  /\ rawFields' = parsed
               /\ shadowJSON' = parsed
               /\ doctype' = doctypeName
               /\ virtualOrder' = buildVirtualOrder(read)
    /\ UNCHANGED <<structure, changes, hasUnsavedChanges, hasOrderChanges,
                   widgetVars, frm, nOps>>
    /\ lastOp' = Op("loadDocType", FALSE, <<>>)

\* ------------------------------------------------------------------------
\* Property edits
\* ------------------------------------------------------------------------

\* Properties edited and the values given to them.
Properties == {"label"}

PropertyValues(property) == {"x", "y"}

\* Field names a caller may pass: those loaded, and one that is unknown.
UnknownName == "nosuch"

CallableNames == {rawFields[i].fieldname : i \in 1..Len(rawFields)} \cup {UnknownName}

\* field[property] = value on the descriptor found by getFieldFromShadow
SetProperty(fields, fieldname, property, value) ==
    [fields EXCEPT ![FindIndex(fields, fieldname) + 1] = ObjSet(@, property, value)]

\* this.changes[fieldname][property] = value
RecordChange(chg, fieldname, property, value) ==
    ObjSet(chg, fieldname,
        ObjSet(IF fieldname \in DOMAIN chg THEN chg[fieldname] ELSE EmptyObj,
               property, value))

\* updateFieldProperty on a shadow list that shares its descriptor objects
\* with the pristine list (a load without the deep copy): the assignment
\* shows in rawFields as well.
UpdateFoundAliased(fieldname, property, value) ==
    /\ shadowJSON' = SetProperty(shadowJSON, fieldname, property, value)
    /\ rawFields' = IF HasField(rawFields, fieldname)
                    THEN SetProperty(rawFields, fieldname, property, value)
                    ELSE rawFields
    /\ changes' = RecordChange(changes, fieldname, property, value)
    /\ hasUnsavedChanges' = TRUE
    /\ structure' = buildStructure(virtualOrder, shadowJSON')
    /\ onDataChanged
    /\ UNCHANGED <<virtualOrder, doctype, hasOrderChanges, saveRequests>>

\* What updateFieldProperty does once the descriptor is found: the
\* assignment, the change set entry, buildStructure() and onChangeCallback.
UpdateFound(fieldname, property, value) ==
    /\ shadowJSON' = SetProperty(shadowJSON, fieldname, property, value)
    /\ changes' = RecordChange(changes, fieldname, property, value)
    /\ hasUnsavedChanges' = TRUE
    /\ structure' = buildStructure(virtualOrder, shadowJSON')
    /\ onDataChanged
    /\ UNCHANGED <<rawFields, virtualOrder, doctype, hasOrderChanges, saveRequests>>

\* updateFieldProperty without the `if (!field) return false`: the change
\* is recorded for a name that is not in the shadow list.
updateFieldPropertyRecordsUnknown(fieldname, property, value) ==
    /\ nOps < MaxOps
    /\ changes' = RecordChange(changes, fieldname, property, value)
    /\ hasUnsavedChanges' = TRUE
    /\ shadowJSON' = IF HasField(shadowJSON, fieldname)
                     THEN SetProperty(shadowJSON, fieldname, property, value)
                     ELSE shadowJSON
    /\ structure' = buildStructure(virtualOrder, shadowJSON')
    /\ onDataChanged
    /\ UNCHANGED <<rawFields, virtualOrder, doctype, hasOrderChanges, saveRequests,
                   currentColumn, frm>>
    /\ lastOp' = Op("updateFieldProperty", HasField(shadowJSON, fieldname), <<>>)
    /\ nOps' = nOps + 1

updateFieldProperty(fieldname, property, value) ==
    IF ~HasField(shadowJSON, fieldname)
    THEN Rejected("updateFieldProperty")
    ELSE
        /\ nOps < MaxOps
        /\ UpdateFound(fieldname, property, value)
        /\ UNCHANGED <<currentColumn, frm>>
        /\ lastOp' = Op("updateFieldProperty", TRUE, <<>>)
        /\ nOps' = nOps + 1

\* clearChanges()
clearChanges ==
    /\ changes' = EmptyObj
    /\ hasUnsavedChanges' = FALSE
    /\ hasOrderChanges' = FALSE

\* revertChanges without the rebuild of virtualOrder.
revertChangesKeepsOrder ==
    /\ nOps < MaxOps
    /\ shadowJSON' = rawFields
    /\ structure' = buildStructure(virtualOrder, shadowJSON')
    /\ changes' = EmptyObj
    /\ hasUnsavedChanges' = FALSE
    /\ hasOrderChanges' = FALSE
    /\ onDataChanged
    /\ UNCHANGED <<rawFields, virtualOrder, doctype, saveRequests, currentColumn, frm>>
    /\ lastOp' = Op("revertChanges", TRUE, <<>>)
    /\ nOps' = nOps + 1

revertChanges ==
    /\ nOps < MaxOps
    /\ shadowJSON' = rawFields
    /\ virtualOrder' = buildVirtualOrder(shadowJSON')
    /\ structure' = buildStructure(virtualOrder', shadowJSON')
    /\ changes' = EmptyObj
    /\ hasUnsavedChanges' = FALSE
    /\ hasOrderChanges' = FALSE
    /\ onDataChanged
    /\ UNCHANGED <<rawFields, doctype, saveRequests, currentColumn, frm>>
    /\ lastOp' = Op("revertChanges", TRUE, <<>>)
    /\ nOps' = nOps + 1

\* applyVirtualOrder(), as getUpdatedFieldsJSON() calls it
applyVirtualOrder ==
    /\ nOps < MaxOps
    /\ shadowJSON' = reorderedFields(virtualOrder, shadowJSON)
    /\ changes' = trackIdxChanges(changes, rawFields, shadowJSON')
    /\ UNCHANGED <<rawFields, virtualOrder, structure, doctype, hasUnsavedChanges,
                   hasOrderChanges, widgetVars, frm>>
    /\ lastOp' = Op("applyVirtualOrder", TRUE, <<>>)
    /\ nOps' = nOps + 1

setCurrentTab(index) ==
    IF index >= 0 /\ index < Len(structure.tabs)
    THEN
        /\ nOps < MaxOps
        /\ structure' = [structure EXCEPT !.currentTab = index]
        /\ virtualOrder' = [virtualOrder EXCEPT !.currentTab = index]
        /\ UNCHANGED <<rawFields, shadowJSON, doctype, changes, hasUnsavedChanges,
                       hasOrderChanges, widgetVars, frm>>
        /\ lastOp' = Op("setCurrentTab", TRUE, <<>>)
        /\ nOps' = nOps + 1
    ELSE Rejected("setCurrentTab")

\* Largest number of sections of a tab of the tree.
RECURSIVE MaxSectionsFrom(_, _)
MaxSectionsFrom(tabs, t) ==
    IF t > Len(tabs) THEN 0
    ELSE LET rest == MaxSectionsFrom(tabs, t + 1)
         IN  IF Len(tabs[t].sections) > rest THEN Len(tabs[t].sections) ELSE rest

MaxSectionsIn(vo) == MaxSectionsFrom(vo.tabs, 1)

\* ------------------------------------------------------------------------
\* Moves (virtualOrder only)
\* ------------------------------------------------------------------------

\* AfterMove without `this.hasOrderChanges = true`.
AfterMoveNotDirty(name, args) ==
    /\ structure' = buildStructure(virtualOrder', shadowJSON)
    /\ onDataChanged
    /\ UNCHANGED <<rawFields, shadowJSON, doctype, changes, hasUnsavedChanges,
                   hasOrderChanges, saveRequests, currentColumn, frm>>
    /\ lastOp' = Op(name, TRUE, args)
    /\ nOps' = nOps + 1

\* AfterMove for a move that also writes the new order through to the
\* shadow list and records the positions.
AfterMoveWritesThrough(name, args) ==
    /\ hasOrderChanges' = TRUE
    /\ shadowJSON' = reorderedFields(virtualOrder', shadowJSON)
    /\ changes' = trackIdxChanges(changes, rawFields, shadowJSON')
    /\ structure' = buildStructure(virtualOrder', shadowJSON')
    /\ onDataChanged
    /\ UNCHANGED <<rawFields, doctype, hasUnsavedChanges, saveRequests, currentColumn, frm>>
    /\ lastOp' = Op(name, TRUE, args)
    /\ nOps' = nOps + 1

\* What every successful move does after changing virtualOrder:
\* hasOrderChanges = true, buildStructure(), onChangeCallback.
AfterMove(name, args) ==
    /\ hasOrderChanges' = TRUE
    /\ structure' = buildStructure(virtualOrder', shadowJSON)
    /\ onDataChanged
    /\ UNCHANGED <<rawFields, shadowJSON, doctype, changes, hasUnsavedChanges,
                   saveRequests, currentColumn, frm>>
    /\ lastOp' = Op(name, TRUE, args)
    /\ nOps' = nOps + 1

\* moveSectionInCurrentTab without the `fromIndex === toIndex` test.
moveSectionInCurrentTabAcceptsSame(fromIndex, toIndex) ==
    LET currentTabIdx == virtualOrder.currentTab
        sections == virtualOrder.tabs[currentTabIdx + 1].sections
    IN  IF \/ currentTabIdx + 1 > Len(virtualOrder.tabs)
           \/ fromIndex < 0 \/ fromIndex >= Len(sections)
           \/ toIndex < 0 \/ toIndex >= Len(sections)
        THEN Rejected("moveSectionInCurrentTab")
        ELSE
            /\ nOps < MaxOps
            /\ virtualOrder' =
                  [virtualOrder EXCEPT !.tabs[currentTabIdx + 1].sections =
                      MoveElement(sections, fromIndex, toIndex)]
            /\ AfterMove("moveSectionInCurrentTab", <<fromIndex, toIndex>>)

moveSectionInCurrentTab(fromIndex, toIndex) ==
    LET currentTabIdx == virtualOrder.currentTab
    IN  IF currentTabIdx + 1 > Len(virtualOrder.tabs)
        THEN Rejected("moveSectionInCurrentTab")
        ELSE
            LET sections == virtualOrder.tabs[currentTabIdx + 1].sections
            IN  IF \/ fromIndex < 0 \/ fromIndex >= Len(sections)
                   \/ toIndex < 0 \/ toIndex >= Len(sections)
                   \/ fromIndex = toIndex
                THEN Rejected("moveSectionInCurrentTab")
                ELSE
                    /\ nOps < MaxOps
                    /\ virtualOrder' =
                          [virtualOrder EXCEPT !.tabs[currentTabIdx + 1].sections =
                              MoveElement(sections, fromIndex, toIndex)]
                    /\ AfterMove("moveSectionInCurrentTab", <<fromIndex, toIndex>>)

\* Position <<tab, section>> (1-based) of the section findSectionInVirtualOrder
\* returns: the first tab that has a section of that name, and the first
\* such section in it; <<0, 0>> for null.
SectionHits(vo, sectionFieldname) ==
    {<<t, s>> \in (1..Len(vo.tabs)) \X (1..MaxSectionsIn(vo)) :
        /\ s <= Len(vo.tabs[t].sections)
        /\ vo.tabs[t].sections[s].fieldname = sectionFieldname}

findSectionInVirtualOrder(vo, sectionFieldname) ==
    LET hits == SectionHits(vo, sectionFieldname)
    IN  IF hits = {} THEN <<0, 0>>
        ELSE CHOOSE p \in hits :
                \A q \in hits : p[1] < q[1] \/ (p[1] = q[1] /\ p[2] <= q[2])

ColumnsAt(vo, pos) == vo.tabs[pos[1]].sections[pos[2]].columns

\* The column break names of the columns that have one, in column order.
RECURSIVE allColumnBreaks(_, _)
allColumnBreaks(columns, c) ==
    IF c > Len(columns) THEN <<>>
    ELSE (IF columns[c].columnBreakFieldname # NoBreak
            THEN <<columns[c].columnBreakFieldname>> ELSE <<>>)
         \o allColumnBreaks(columns, c + 1)

\* fixColumnBreakAssignments without the delete on column 0.
fixColumnBreakAssignmentsKeepsFirst(columns) ==
    LET pool == allColumnBreaks(columns, 1)
    IN  [c \in 1..Len(columns) |->
            IF c - 1 = 0 THEN columns[c]
            ELSE IF c - 1 <= Len(pool)
                 THEN [columns[c] EXCEPT !.columnBreakFieldname = pool[c - 1]]
                 ELSE columns[c]]

\* fixColumnBreakAssignments taking the names from the end of the pool
\* (pop() for shift()).
fixColumnBreakAssignmentsPops(columns) ==
    LET pool == allColumnBreaks(columns, 1)
    IN  [c \in 1..Len(columns) |->
            IF c - 1 = 0 THEN [columns[c] EXCEPT !.columnBreakFieldname = NoBreak]
            ELSE IF c - 1 <= Len(pool)
                 THEN [columns[c] EXCEPT
                          !.columnBreakFieldname = pool[Len(pool) - (c - 1) + 1]]
                 ELSE columns[c]]

\* Column idx (0-based) takes the next name shifted from the pool: the
\* idx-th one, while the pool lasts; after that it keeps what it has.
fixColumnBreakAssignments(columns) ==
    LET pool == allColumnBreaks(columns, 1)
    IN  [c \in 1..Len(columns) |->
            IF c - 1 = 0 THEN [columns[c] EXCEPT !.columnBreakFieldname = NoBreak]
            ELSE IF c - 1 <= Len(pool)
                 THEN [columns[c] EXCEPT !.columnBreakFieldname = pool[c - 1]]
                 ELSE columns[c]]

moveColumnInSection(sectionFieldname, fromIndex, toIndex) ==
    LET pos == findSectionInVirtualOrder(virtualOrder, sectionFieldname)
    IN  IF pos = <<0, 0>>
        THEN Rejected("moveColumnInSection")
        ELSE
            LET columns == ColumnsAt(virtualOrder, pos)
            IN  IF \/ fromIndex < 0 \/ fromIndex >= Len(columns)
                   \/ toIndex < 0 \/ toIndex >= Len(columns)
                   \/ fromIndex = toIndex
                THEN Rejected("moveColumnInSection")
                ELSE
                    /\ nOps < MaxOps
                    /\ virtualOrder' =
                          [virtualOrder EXCEPT
                              !.tabs[pos[1]].sections[pos[2]].columns =
                                  fixColumnBreakAssignments(
                                      MoveElement(columns, fromIndex, toIndex))]
                    /\ AfterMove("moveColumnInSection",
                                 <<sectionFieldname, fromIndex, toIndex>>)

moveFieldInColumn(sectionFieldname, columnIndex, fromFieldIndex, toFieldIndex) ==
    LET pos == findSectionInVirtualOrder(virtualOrder, sectionFieldname)
    IN  IF \/ pos = <<0, 0>>
           \/ columnIndex < 0
           \/ columnIndex >= Len(ColumnsAt(virtualOrder, pos))
        THEN Rejected("moveFieldInColumn")
        ELSE
            LET fieldnames == ColumnsAt(virtualOrder, pos)[columnIndex + 1].fieldnames
            IN  IF \/ fromFieldIndex < 0 \/ fromFieldIndex >= Len(fieldnames)
                   \/ toFieldIndex < 0 \/ toFieldIndex >= Len(fieldnames)
                   \/ fromFieldIndex = toFieldIndex
                THEN Rejected("moveFieldInColumn")
                ELSE
                    /\ nOps < MaxOps
                    /\ virtualOrder' =
                          [virtualOrder EXCEPT
                              !.tabs[pos[1]].sections[pos[2]].columns[columnIndex + 1]
                                  .fieldnames =
                                  MoveElement(fieldnames, fromFieldIndex, toFieldIndex)]
                    /\ AfterMove("moveFieldInColumn", <<>>)

\* const [x] = s.splice(start, 1): the element removed (undefined if none)
SplicedOut(s, start) ==
    IF SpliceStart(Len(s), start) < Len(s)
    THEN s[SpliceStart(Len(s), start) + 1] ELSE Undefined

\* s after s.splice(start, 1)
SpliceRemove(s, start) ==
    IF SpliceStart(Len(s), start) < Len(s)
    THEN RemoveAt(s, SpliceStart(Len(s), start)) ELSE s

\* s after s.splice(start, 0, x)
SpliceInsert(s, start, x) == InsertAt(s, SpliceStart(Len(s), start), x)

moveFieldToColumn(sectionFieldname, fromColumnIndex, fieldIndex, toColumnIndex, toFieldIndex) ==
    LET pos == findSectionInVirtualOrder(virtualOrder, sectionFieldname)
    IN  IF \/ pos = <<0, 0>>
           \/ fromColumnIndex < 0
           \/ fromColumnIndex >= Len(ColumnsAt(virtualOrder, pos))
           \/ toColumnIndex < 0
           \/ toColumnIndex >= Len(ColumnsAt(virtualOrder, pos))
        THEN Rejected("moveFieldToColumn")
        ELSE
            LET columns == ColumnsAt(virtualOrder, pos)
                fieldname == SplicedOut(columns[fromColumnIndex + 1].fieldnames,
                                        fieldIndex)
                extracted == [columns EXCEPT ![fromColumnIndex + 1].fieldnames =
                                 SpliceRemove(@, fieldIndex)]
                inserted == [extracted EXCEPT ![toColumnIndex + 1].fieldnames =
                                 SpliceInsert(@, toFieldIndex, fieldname)]
            IN  /\ nOps < MaxOps
                /\ virtualOrder' =
                      [virtualOrder EXCEPT
                          !.tabs[pos[1]].sections[pos[2]].columns = inserted]
                /\ AfterMove("moveFieldToColumn", <<>>)

\* ------------------------------------------------------------------------
\* Commit (LayoutEditorWidget)
\* ------------------------------------------------------------------------

\* A click on Preview Changes; confirm is the user's answer to frappe.confirm.
\* On confirm doSaveChanges(changes) disables the button and issues
\* save_field_changes with the change set as it is then.
previewAndSaveChanges(confirm) ==
    /\ ~previewBtnDisabled
    /\ IF ~hasChanges \/ ~confirm
       THEN Rejected("previewAndSaveChanges")
       ELSE
           /\ nOps < MaxOps
           /\ previewBtnDisabled' = TRUE
           /\ saveRequests' = Append(saveRequests, changes)
           /\ UNCHANGED <<dmVars, currentColumn, frm>>
           /\ lastOp' = Op("doSaveChanges", TRUE, <<>>)
           /\ nOps' = nOps + 1

\* doSaveChangesResumes with a catch block that also clears the change set.
doSaveChangesResumesClearsOnError(i, success) ==
    /\ saveRequests' = RemoveAt(saveRequests, i - 1)
    /\ UNCHANGED <<currentColumn, frm>>
    /\ clearChanges
    /\ previewBtnDisabled' = success
    /\ UNCHANGED <<rawFields, shadowJSON, virtualOrder, structure, doctype>>
    /\ lastOp' = Op(IF success THEN "saveSuccess" ELSE "saveError", TRUE,
                    <<saveRequests[i]>>)

\* doSaveChanges after its await, for the i-th request in flight: the lines
\* after the promise when r.message is set (success), the catch block when
\* r.message is empty or the error callback ran (failure).
doSaveChangesResumes(i, success) ==
    /\ saveRequests' = RemoveAt(saveRequests, i - 1)
    /\ UNCHANGED <<currentColumn, frm>>
    /\ IF success
       THEN
           /\ clearChanges
           /\ previewBtnDisabled' = TRUE
           /\ UNCHANGED <<rawFields, shadowJSON, virtualOrder, structure, doctype>>
           /\ lastOp' = Op("saveSuccess", TRUE, <<saveRequests[i]>>)
       ELSE
           /\ previewBtnDisabled' = FALSE
           /\ UNCHANGED dmVars
           /\ lastOp' = Op("saveError", TRUE, <<saveRequests[i]>>)

\* The response to the i-th request in flight, counted as a call.
saveResponse(i, success) ==
    /\ nOps < MaxOps
    /\ doSaveChangesResumes(i, success)
    /\ nOps' = nOps + 1

\* ------------------------------------------------------------------------
\* Column widths (LayoutEditorVisualRenderer, LayoutEditorPropertiesPanel)
\* ------------------------------------------------------------------------

\* Slots of the grid a section's columns share.
GridColumns == 12

\* Largest width the width selectors offer; 0 stands for auto.
MaxWidthOption == 11

WidthOptions == 0..MaxWidthOption

\* parseInt(col.width) || 0
WidthNumber(width) == IF width.auto THEN 0 ELSE width.n

\* The sections of structure.tabs[structure.currentTab], the ones render()
\* shows; none when there is no such tab.
RenderedSections ==
    IF structure.currentTab < 0 \/ structure.currentTab >= Len(structure.tabs)
    THEN <<>>
    ELSE structure.tabs[structure.currentTab + 1].sections

\* findSectionByFieldname as an array: the section found, or nothing.
findSectionByFieldname(sectionFieldname) ==
    LET idx == FindIndex(RenderedSections, sectionFieldname)
    IN  IF idx >= 0 THEN <<RenderedSections[idx + 1]>> ELSE <<>>

\* The forEach of calculateOtherColumnsWidth from column c (1-based) on.
RECURSIVE OtherColumnsWidthFrom(_, _, _)
OtherColumnsWidthFrom(columns, excludeColumnIndex, c) ==
    IF c > Len(columns) THEN 0
    ELSE (IF c - 1 # excludeColumnIndex /\ c - 1 > 0 /\ WidthNumber(columns[c].width) > 0
            THEN WidthNumber(columns[c].width) ELSE 0)
         + OtherColumnsWidthFrom(columns, excludeColumnIndex, c + 1)

\* calculateOtherColumnsWidth with `idx > 1` for `idx > 0`: the width of
\* column 1 is not counted.
calculateOtherColumnsWidthSkipsSecond(section, excludeColumnIndex) ==
    OtherColumnsWidthFrom(section.columns, excludeColumnIndex, 3)

calculateOtherColumnsWidth(section, excludeColumnIndex) ==
    OtherColumnsWidthFrom(section.columns, excludeColumnIndex, 1)

\* LayoutEditorVisualRenderer.onColumnWidthChange for the column at
\* columnIndex of the rendered section sectionFieldname (the inline width
\* selector). A rejected edit reports newTotal.
onColumnWidthChange(sectionFieldname, columnIndex, newWidth) ==
    LET section == findSectionByFieldname(sectionFieldname)
        column == section[1].columns[columnIndex + 1]
        otherColumnsTotal == calculateOtherColumnsWidth(section[1], columnIndex)
        newTotal == otherColumnsTotal + newWidth
    IN  IF column.columnBreakFieldname = NoBreak
        THEN Rejected("onColumnWidthChange")
        ELSE IF newWidth > 0 /\ newTotal > GridColumns
        THEN
            /\ lastOp' = Op("onColumnWidthChange", FALSE,
                            <<sectionFieldname, columnIndex, newWidth, newTotal>>)
            /\ UNCHANGED <<dmVars, widgetVars, frm, nOps>>
        ELSE
            /\ nOps < MaxOps
            /\ UpdateFound(column.columnBreakFieldname, "columns", newWidth)
            /\ UNCHANGED <<currentColumn, frm>>
            /\ lastOp' = Op("onColumnWidthChange", TRUE,
                            <<sectionFieldname, columnIndex, newWidth>>)
            /\ nOps' = nOps + 1

\* LayoutEditorVisualRenderer.selectColumn and the displayColumn it leads
\* to: the panel keeps the column break descriptor of the column, which is
\* null for column 0 and for a column without column break.
selectColumn(sectionFieldname, columnIndex) ==
    LET column == findSectionByFieldname(sectionFieldname)[1].columns[columnIndex + 1]
    IN  /\ nOps < MaxOps
        /\ currentColumn' = IF columnIndex > 0 THEN column.columnBreakFieldname
                            ELSE NoBreak
        /\ UNCHANGED <<dmVars, previewBtnDisabled, saveRequests, frm>>
        /\ lastOp' = Op("selectColumn", TRUE, <<sectionFieldname, columnIndex>>)
        /\ nOps' = nOps + 1

\* LayoutEditorPropertiesPanel.onColumnWidthChange (the width selector of
\* the properties panel).
panelOnColumnWidthChange(newWidth) ==
    IF currentColumn = NoBreak
    THEN Rejected("panelOnColumnWidthChange")
    ELSE
        /\ nOps < MaxOps
        /\ UpdateFound(currentColumn, "columns", newWidth)
        /\ UNCHANGED <<currentColumn, frm>>
        /\ lastOp' = Op("panelOnColumnWidthChange", TRUE, <<currentColumn, newWidth>>)
        /\ nOps' = nOps + 1

\* A share of a row as a fraction; calculateColumnVisualWidth returns
\* num / den as a floating point percentage.
Ratio(num, den) == [num |-> num, den |-> den]

RatioEq(a, b) == a.num * b.den = b.num * a.den

\* totalFixedWidth of calculateColumnVisualWidth, from column c on.
RECURSIVE totalFixedWidth(_, _)
totalFixedWidth(allColumns, c) ==
    IF c > Len(allColumns) THEN 0
    ELSE (IF c - 1 # 0 /\ WidthNumber(allColumns[c].width) > 0
            THEN WidthNumber(allColumns[c].width) ELSE 0)
         + totalFixedWidth(allColumns, c + 1)

\* autoColumnCount of calculateColumnVisualWidth, from column c on.
RECURSIVE autoColumnCount(_, _)
autoColumnCount(allColumns, c) ==
    IF c > Len(allColumns) THEN 0
    ELSE (IF c - 1 = 0 \/ WidthNumber(allColumns[c].width) <= 0 THEN 1 ELSE 0)
         + autoColumnCount(allColumns, c + 1)

calculateColumnVisualWidth(column, columnIndex, allColumns) ==
    LET remainingWidth == GridColumns - totalFixedWidth(allColumns, 1)
    IN  IF columnIndex = 0
        THEN Ratio(remainingWidth * 100, GridColumns)
        ELSE IF WidthNumber(column.width) > 0
        THEN Ratio(WidthNumber(column.width) * 100, GridColumns)
        ELSE Ratio(remainingWidth * 100, autoColumnCount(allColumns, 1) * GridColumns)

\* ------------------------------------------------------------------------
\* JSON editor form (frappe.ui.form.on("Layout Editor"))
\* ------------------------------------------------------------------------

\* User actions on the form followed in one behaviour.
MaxFormOps == 5

\* Texts of the JSON editor: two that validate_json_for_customizations
\* accepts and one it rejects.
JsonTexts == {"j1", "j2", "bad"}

\* refresh: the Update Properties button is added when __validated is set
\* and __json_changed is not, and removed otherwise.
refresh(f) == [f EXCEPT !.update_button = f.validated /\ ~f.json_changed]

\* The callback of load_json_button with r.message.fields_json: set_value,
\* the reset of both flags, refresh.
load_json_button(fields_json) ==
    /\ frm.n < MaxFormOps
    /\ frm' = refresh([frm EXCEPT !.json_editor = fields_json,
                                  !.validated = FALSE,
                                  !.json_changed = FALSE,
                                  !.n = @ + 1])
    /\ UNCHANGED <<dmVars, widgetVars, lastOp, nOps>>

\* The user changes the text to another one; the json_editor handler marks
\* the text as changed only if __validated is set.
json_editor(text) ==
    /\ frm.n < MaxFormOps
    /\ text # frm.json_editor
    /\ frm' = IF frm.validated
              THEN refresh([frm EXCEPT !.json_editor = text,
                                       !.json_changed = TRUE,
                                       !.validated = FALSE,
                                       !.n = @ + 1])
              ELSE [frm EXCEPT !.json_editor = text, !.n = @ + 1]
    /\ UNCHANGED <<dmVars, widgetVars, lastOp, nOps>>

\* validate_json_button with a text in the editor: the call is issued with
\* json_str = frm.doc.json_editor.
validate_json_button ==
    /\ frm.n < MaxFormOps
    /\ frm.json_editor # ""
    /\ frm' = [frm EXCEPT !.validating = Append(@, frm.json_editor), !.n = @ + 1]
    /\ UNCHANGED <<dmVars, widgetVars, lastOp, nOps>>

\* The callback of a validation call in flight: nothing without r.message;
\* with r.message.success the flags are set for a validated text; otherwise
\* for a changed one; refresh in both cases.
validate_json_callback ==
    \E i \in 1..Len(frm.validating), answered \in BOOLEAN :
        LET json_str == frm.validating[i]
            done == [frm EXCEPT !.validating = RemoveAt(@, i - 1)]
        IN  /\ frm' = IF ~answered THEN done
                      ELSE IF json_str # "bad"
                      THEN refresh([done EXCEPT !.validated = TRUE,
                                                !.json_changed = FALSE,
                                                !.passed = json_str])
                      ELSE refresh([done EXCEPT !.validated = FALSE,
                                                !.json_changed = TRUE])
            /\ UNCHANGED <<dmVars, widgetVars, lastOp, nOps>>

\* update_properties(frm), run by the Update Properties button, the user
\* confirming: the call is issued with json_str = frm.doc.json_editor.
update_properties ==
    /\ frm.n < MaxFormOps
    /\ frm.update_button
    /\ frm.json_editor # ""
    /\ frm' = [frm EXCEPT !.updating = Append(@, frm.json_editor), !.n = @ + 1]
    /\ UNCHANGED <<dmVars, widgetVars, lastOp, nOps>>

\* The callback of an update_properties call in flight: on success both
\* flags are reset and the form refreshed.
update_properties_callback ==
    \E i \in 1..Len(frm.updating), success \in BOOLEAN :
        LET done == [frm EXCEPT !.updating = RemoveAt(@, i - 1)]
        IN  /\ frm' = IF success
                      THEN refresh([done EXCEPT !.validated = FALSE,
                                                !.json_changed = FALSE,
                                                !.applied = frm.updating[i]])
                      ELSE done
            /\ UNCHANGED <<dmVars, widgetVars, lastOp, nOps>>

\* ------------------------------------------------------------------------
\* Specifications
\* ------------------------------------------------------------------------

\* Index arguments tried on an array of the given length: every valid one,
\* and -1 and length, which are out of range.
IndexInputs(len) == (-1)..len

\* The indices of an array of the given length.
ValidIndices(len) == 0..(len - 1)

SectionNames(vo) ==
    {vo.tabs[p[1]].sections[p[2]].fieldname :
        p \in {q \in (1..Len(vo.tabs)) \X (1..MaxSectionsIn(vo)) :
                  q[2] <= Len(vo.tabs[q[1]].sections)}}

\* The columns of the section a call with that section name works on.
ColumnsOf(vo, name) ==
    IF findSectionInVirtualOrder(vo, name) = <<0, 0>> THEN <<>>
    ELSE ColumnsAt(vo, findSectionInVirtualOrder(vo, name))

\* Length of the field name array of column columnIndex (0-based), 0 if none.
FieldCount(columns, columnIndex) ==
    IF columnIndex >= 0 /\ columnIndex < Len(columns)
    THEN Len(columns[columnIndex + 1].fieldnames) ELSE 0

\* The call took effect (it did not return early).
Accepted == lastOp'.ok

Load == \E fields \in FieldLists : LoadDocType(fields)

Edit ==
    /\ nOps < MaxOps
    /\ \E name \in CallableNames \ {UnknownName}, property \in Properties :
        \E value \in PropertyValues(property) :
            updateFieldProperty(name, property, value)
    /\ Accepted

Revert == revertChanges

GetUpdatedFieldsJSON == applyVirtualOrder

SwitchTab ==
    /\ nOps < MaxOps
    /\ \E index \in ValidIndices(Len(structure.tabs)) : setCurrentTab(index)
    /\ Accepted

MoveSection ==
    /\ nOps < MaxOps
    /\ \E fromIndex, toIndex \in ValidIndices(MaxSectionsIn(virtualOrder)) :
        moveSectionInCurrentTab(fromIndex, toIndex)
    /\ Accepted

MoveColumn ==
    /\ nOps < MaxOps
    /\ \E name \in SectionNames(virtualOrder) :
        \E fromIndex, toIndex \in ValidIndices(Len(ColumnsOf(virtualOrder, name))) :
            moveColumnInSection(name, fromIndex, toIndex)
    /\ Accepted

MoveFieldWithin ==
    /\ nOps < MaxOps
    /\ \E name \in SectionNames(virtualOrder) :
        \E columnIndex \in ValidIndices(Len(ColumnsOf(virtualOrder, name))) :
            \E fromFieldIndex, toFieldIndex \in
                    ValidIndices(FieldCount(ColumnsOf(virtualOrder, name), columnIndex)) :
                moveFieldInColumn(name, columnIndex, fromFieldIndex, toFieldIndex)
    /\ Accepted

\* moveFieldToColumn checks neither field index, so the out-of-range ones
\* are tried as well.
MoveFieldAcross ==
    /\ nOps < MaxOps
    /\ \E name \in SectionNames(virtualOrder) :
        \E fromColumnIndex, toColumnIndex \in
                ValidIndices(Len(ColumnsOf(virtualOrder, name))) :
            \E fieldIndex \in
                    IndexInputs(FieldCount(ColumnsOf(virtualOrder, name), fromColumnIndex)),
               toFieldIndex \in
                    IndexInputs(FieldCount(ColumnsOf(virtualOrder, name), toColumnIndex)) :
                moveFieldToColumn(name, fromColumnIndex, fieldIndex, toColumnIndex,
                                  toFieldIndex)
    /\ Accepted

Commit ==
    /\ nOps < MaxOps
    /\ \E confirm \in BOOLEAN : previewAndSaveChanges(confirm)
    /\ Accepted

Response ==
    \E i \in 1..Len(saveRequests), success \in BOOLEAN : saveResponse(i, success)

Next ==
    \/ Load
    \/ Edit
    \/ Revert
    \/ GetUpdatedFieldsJSON
    \/ SwitchTab
    \/ MoveSection
    \/ MoveColumn
    \/ MoveFieldWithin
    \/ MoveFieldAcross
    \/ Commit
    \/ Response

Spec == Init /\ [][Next]_vars

\* Parse and flatten only: every list of the larger family is loaded and
\* flattened straight away.
RoundTripLists ==
    UNION {{ListOfTypes(ts) : ts \in TypeSeqs(n)} : n \in 1..RoundTripLen}
        \cup ScenarioLists

LoadAny == \E fields \in RoundTripLists : LoadDocType(fields)

NextRoundTrip ==
    \/ LoadAny
    \/ GetUpdatedFieldsJSON

SpecRoundTrip == Init /\ [][NextRoundTrip]_vars

\* Width edits only: the inline selector with every offered width (the
\* rejected ones included), column selection and the panel's selector.
LoadWidths == \E fields \in WidthLists : LoadDocType(fields)

InlineWidth ==
    /\ nOps < MaxOps
    /\ \E s \in 1..Len(RenderedSections) :
        \E columnIndex \in 1..(Len(RenderedSections[s].columns) - 1) :
            \E newWidth \in WidthOptions :
                onColumnWidthChange(RenderedSections[s].fieldname, columnIndex, newWidth)

SelectColumn ==
    \E s \in 1..Len(RenderedSections) :
        \E columnIndex \in ValidIndices(Len(RenderedSections[s].columns)) :
            selectColumn(RenderedSections[s].fieldname, columnIndex)

PanelWidth ==
    /\ nOps < MaxOps
    /\ currentColumn # NoBreak
    /\ \E newWidth \in WidthOptions : panelOnColumnWidthChange(newWidth)

NextWidth ==
    \/ LoadWidths
    \/ SwitchTab
    \/ InlineWidth
    \/ SelectColumn
    \/ PanelWidth

SpecWidth == Init /\ [][NextWidth]_vars

\* Every call of the data manager's editing interface with valid and with
\* invalid arguments; the rejected calls are steps as well.
NamesTried(vo) == SectionNames(vo) \cup {UnknownName}

\* Calls that take effect in a behaviour of this specification: one fewer
\* than MaxOps, every state having its rejected calls as well.
MaxCalls == MaxOps - 1

CallSection ==
    /\ nOps < MaxCalls
    /\ \E fromIndex, toIndex \in IndexInputs(MaxSectionsIn(virtualOrder)) :
        moveSectionInCurrentTab(fromIndex, toIndex)

CallColumn ==
    /\ nOps < MaxCalls
    /\ \E name \in NamesTried(virtualOrder) :
        \E fromIndex, toIndex \in IndexInputs(Len(ColumnsOf(virtualOrder, name))) :
            moveColumnInSection(name, fromIndex, toIndex)

CallFieldWithin ==
    /\ nOps < MaxCalls
    /\ \E name \in NamesTried(virtualOrder) :
        \E columnIndex \in IndexInputs(Len(ColumnsOf(virtualOrder, name))) :
            \E fromFieldIndex, toFieldIndex \in
                    IndexInputs(FieldCount(ColumnsOf(virtualOrder, name), columnIndex)) :
                moveFieldInColumn(name, columnIndex, fromFieldIndex, toFieldIndex)

CallFieldAcross ==
    /\ nOps < MaxCalls
    /\ \E name \in NamesTried(virtualOrder) :
        \E fromColumnIndex, toColumnIndex \in
                IndexInputs(Len(ColumnsOf(virtualOrder, name))) :
            \E fieldIndex \in
                    IndexInputs(FieldCount(ColumnsOf(virtualOrder, name), fromColumnIndex)),
               toFieldIndex \in
                    IndexInputs(FieldCount(ColumnsOf(virtualOrder, name), toColumnIndex)) :
                moveFieldToColumn(name, fromColumnIndex, fieldIndex, toColumnIndex,
                                  toFieldIndex)

CallEdit ==
    /\ nOps < MaxCalls
    /\ \E name \in CallableNames, property \in Properties :
        \E value \in PropertyValues(property) :
            updateFieldProperty(name, property, value)

NextCalls ==
    \/ Load
    \/ CallSection
    \/ CallColumn
    \/ CallFieldWithin
    \/ CallFieldAcross
    \/ CallEdit

SpecCalls == Init /\ [][NextCalls]_vars

\* Loads, successful and failed, at any time of a session: before the first
\* load and after edits and moves. A session whose last load failed is only
\* loaded again (calls on it are not followed).
DoctypeNames == {"DocType", "Other"}

LoadAgain ==
    \E doctypeName \in DoctypeNames, fields \in ScenarioLists :
        /\ doctype = NoDoctype => doctypeName = "DocType"
        /\ loadDocTypeResponse(doctypeName, fields)

LoadFails ==
    \E doctypeName \in DoctypeNames, failure \in ParseFailures :
        \E fields \in {<<>>, SectionScenarioList} :
            /\ doctype = NoDoctype => doctypeName = "DocType"
            /\ failure # "null element" => fields = <<>>
            /\ loadDocTypeFails(doctypeName, failure, fields)

EditLoaded == nOps < MaxCalls /\ Parsed(shadowJSON) /\ Edit

MoveLoaded == nOps < MaxCalls /\ Parsed(shadowJSON) /\ (MoveSection \/ MoveColumn)

NextLoad ==
    \/ LoadAgain
    \/ LoadFails
    \/ EditLoaded
    \/ MoveLoaded

SpecLoad == Init /\ [][NextLoad]_vars

\* Persist requests and their responses around edits and moves, on the
\* scenario lists: a response may also arrive when the calls that take
\* effect are used up, so that an edit made while a request is in flight
\* is followed by the handling of the response.
LoadScenario == \E fields \in ScenarioLists : LoadDocType(fields)

LateResponse ==
    /\ nOps >= MaxOps
    /\ \E i \in 1..Len(saveRequests), success \in BOOLEAN :
        /\ doSaveChangesResumes(i, success)
        /\ nOps' = nOps + 1

NextPersist ==
    \/ LoadScenario
    \/ Edit
    \/ MoveSection
    \/ MoveColumn
    \/ Commit
    \/ Response
    \/ LateResponse

SpecPersist == Init /\ [][NextPersist]_vars

\* Moves issued for the sections shown in the current tab, with the section
\* name the render tree gives for them and indices that are valid for the
\* section shown, and section drops. Two of the lists have two tabs, one of
\* them with a section the parser made in both tabs; the third has three
\* sections in one tab.
DefaultSectionsList ==
    <<Field("h1", Data), Field("h2", Data), Field("k1", ColumnBreak),
      Field("h3", Data), Field("T", TabBreak), Field("h4", Data),
      Field("h5", Data), Field("k2", ColumnBreak), Field("h6", Data)>>

ShownLists == {TabScenarioList, DefaultSectionsList, SectionScenarioList}

LoadShown == \E fields \in ShownLists : LoadDocType(fields)

\* The columns, in the tree, of the s-th section shown.
ShownColumns(s) == virtualOrder.tabs[structure.currentTab + 1].sections[s].columns

MoveColumnShown ==
    \E s \in 1..Len(RenderedSections) :
        \E fromIndex, toIndex \in ValidIndices(Len(ShownColumns(s))) :
            /\ fromIndex # toIndex
            /\ moveColumnInSection(RenderedSections[s].fieldname, fromIndex, toIndex)

MoveFieldWithinShown ==
    \E s \in 1..Len(RenderedSections) :
        \E columnIndex \in ValidIndices(Len(ShownColumns(s))) :
            \E fromFieldIndex, toFieldIndex \in
                    ValidIndices(FieldCount(ShownColumns(s), columnIndex)) :
                /\ fromFieldIndex # toFieldIndex
                /\ moveFieldInColumn(RenderedSections[s].fieldname, columnIndex,
                                     fromFieldIndex, toFieldIndex)

MoveFieldAcrossShown ==
    \E s \in 1..Len(RenderedSections) :
        \E fromColumnIndex, toColumnIndex \in ValidIndices(Len(ShownColumns(s))) :
            \E fieldIndex \in ValidIndices(FieldCount(ShownColumns(s), fromColumnIndex)),
               toFieldIndex \in 0..FieldCount(ShownColumns(s), toColumnIndex) :
                /\ fromColumnIndex # toColumnIndex
                /\ moveFieldToColumn(RenderedSections[s].fieldname, fromColumnIndex,
                                     fieldIndex, toColumnIndex, toFieldIndex)

\* onDrop without the adjustment of the target index for a move down.
onDropNoAdjust(fromIndex, targetIndex) ==
    IF fromIndex = targetIndex \/ fromIndex = targetIndex - 1
    THEN Rejected("onDrop")
    ELSE moveSectionInCurrentTab(fromIndex, targetIndex)

\* LayoutEditorDragDropHandler.onDrop(event, targetIndex) while the section
\* of index fromIndex is dragged (draggedData.fromIndex).
onDrop(fromIndex, targetIndex) ==
    IF fromIndex = targetIndex \/ fromIndex = targetIndex - 1
    THEN Rejected("onDrop")
    ELSE moveSectionInCurrentTab(fromIndex,
            IF fromIndex < targetIndex THEN targetIndex - 1 ELSE targetIndex)

\* A section header of the current tab dragged to one of the drop zones
\* createDropZones made: zone 0 before the first section and zone index + 1
\* after each section.
DropSection ==
    \E fromIndex \in ValidIndices(Len(RenderedSections)),
       targetIndex \in 0..Len(RenderedSections) :
        onDrop(fromIndex, targetIndex)

NextShown ==
    \/ LoadShown
    \/ DropSection
    \/ SwitchTab
    \/ MoveColumnShown
    \/ MoveFieldWithinShown
    \/ MoveFieldAcrossShown

SpecShown == Init /\ [][NextShown]_vars

\* The JSON editor form alone.
NextForm ==
    \/ \E fields_json \in JsonTexts : load_json_button(fields_json)
    \/ \E text \in JsonTexts : json_editor(text)
    \/ validate_json_button
    \/ validate_json_callback
    \/ update_properties
    \/ update_properties_callback

SpecForm == Init /\ [][NextForm]_vars

\* ------------------------------------------------------------------------
\* Properties
\* ------------------------------------------------------------------------

\* A list has well-formed markers when no Column Break opens a section:
\* none is the first descriptor and none directly follows a Tab Break.
WellFormedMarkers(fields) ==
    \A i \in 1..Len(fields) :
        isColumnBreak(fields[i].fieldtype) =>
            i > 1 /\ ~isTabBreak(fields[i - 1].fieldtype)

\* Column 0 has no column break name and every later column has one.
MarkerInvariant(columns) ==
    \A c \in 1..Len(columns) :
        (c = 1) <=> (columns[c].columnBreakFieldname = NoBreak)

BreakNames(columns) == [c \in 1..Len(columns) |-> columns[c].columnBreakFieldname]

FieldGroups(columns) == [c \in 1..Len(columns) |-> columns[c].fieldnames]

\* The last call was an accepted moveColumnInSection.
ColumnMoved(op) == op.op = "moveColumnInSection" /\ op.ok

C2_MarkerInvariantAfterMove ==
    ColumnMoved(lastOp) =>
        MarkerInvariant(ColumnsOf(virtualOrder, lastOp.args[1]))

\* A column was moved in a section whose column 0 carried a column break
\* name before the move (the list opens with a Column Break), here the
\* third column to the front.
C2_Witness ==
    /\ ColumnMoved(lastOp)
    /\ nOps = 1
    /\ isColumnBreak(rawFields[1].fieldtype)
    /\ lastOp.args = <<DefaultSectionName, 2, 0>>
    /\ Len(ColumnsOf(virtualOrder, DefaultSectionName)) = 3

\* C3 as claimed (marker identity follows the slot): an accepted
\* moveColumnInSection on a section that satisfies the marker invariant
\* leaves the column break names of slots 1..N as they were and moves only
\* the groups of field names: the group at fromIndex is taken out and put in
\* at toIndex.
C3_MarkersStayInSlots ==
    [][(ColumnMoved(lastOp') /\ nOps' = nOps + 1
            /\ MarkerInvariant(ColumnsOf(virtualOrder, lastOp'.args[1])))
        => LET before == ColumnsOf(virtualOrder, lastOp'.args[1])
               after == ColumnsOf(virtualOrder', lastOp'.args[1])
           IN  /\ BreakNames(after) = BreakNames(before)
               /\ FieldGroups(after) =
                     MoveElement(FieldGroups(before), lastOp'.args[2], lastOp'.args[3])
      ]_vars

\* The column break names of slots 1..N.
SlotBreaks(columns) == Tail(BreakNames(columns))

\* C3 as amended: an accepted moveColumnInSection on a section that
\* satisfies the marker invariant moves the groups of field names by
\* remove-and-reinsert, and the column break names of slots 1..N keep the
\* order their columns have after the splice: they are unchanged when
\* column 0 is the one moved, and otherwise the moved column's name goes
\* with it (to slot 1 when the column becomes column 0).
C3_MarkersFollowColumns ==
    [][(ColumnMoved(lastOp') /\ nOps' = nOps + 1
            /\ MarkerInvariant(ColumnsOf(virtualOrder, lastOp'.args[1])))
        => LET before == ColumnsOf(virtualOrder, lastOp'.args[1])
               after == ColumnsOf(virtualOrder', lastOp'.args[1])
               fromIndex == lastOp'.args[2]
               toIndex == lastOp'.args[3]
           IN  /\ FieldGroups(after) =
                     MoveElement(FieldGroups(before), fromIndex, toIndex)
               /\ after[1].columnBreakFieldname = NoBreak
               /\ SlotBreaks(after) =
                     IF fromIndex = 0 THEN SlotBreaks(before)
                     ELSE MoveElement(SlotBreaks(before), fromIndex - 1,
                                      IF toIndex = 0 THEN 0 ELSE toIndex - 1)
      ]_vars

\* [col0(f1,f2), col1(m1,f3), col2(m2,f4)] after moveColumn(S, 2, 0):
\* [col0(f4), col1(m2; f1,f2), col2(m1; f3)], the widths 6 and 4 of m2 and
\* m1 shown on slots 1 and 2.
C3_Witness ==
    /\ rawFields = ColumnScenarioList
    /\ nOps = 1
    /\ lastOp = Op("moveColumnInSection", TRUE, <<"S", 2, 0>>)
    /\ ColumnsOf(virtualOrder, "S") =
          <<[columnBreakFieldname |-> NoBreak, fieldnames |-> <<"f4">>],
            [columnBreakFieldname |-> "m2", fieldnames |-> <<"f1", "f2">>],
            [columnBreakFieldname |-> "m1", fieldnames |-> <<"f3">>]>>
    /\ structure.tabs[1].sections[1].columns[2].width = FixedWidth(6)
    /\ structure.tabs[1].sections[1].columns[3].width = FixedWidth(4)

\* The names of the column breaks the columns refer to.
BreakSet(columns) ==
    {columns[c].columnBreakFieldname : c \in 1..Len(columns)} \ {NoBreak}

\* C4 (markers neither invented nor destroyed): for every section the
\* parser can produce, an accepted moveColumnInSection leaves every column
\* break name the section's columns referred to before the call on exactly
\* one column of index >= 1, and refers to no name it did not refer to
\* before.
C4_MarkersConserved ==
    [][(ColumnMoved(lastOp') /\ nOps' = nOps + 1)
        => LET before == ColumnsOf(virtualOrder, lastOp'.args[1])
               after == ColumnsOf(virtualOrder', lastOp'.args[1])
           IN  /\ \A m \in BreakSet(before) :
                    Cardinality({c \in 2..Len(after) :
                                    after[c].columnBreakFieldname = m}) = 1
               /\ after[1].columnBreakFieldname = NoBreak
               /\ BreakSet(after) \subseteq BreakSet(before)
      ]_vars

\* The tree without the tab labels: names and nesting only.
TreeShape(tabs) ==
    [t \in 1..Len(tabs) |->
        [fieldname |-> tabs[t].fieldname, sections |-> tabs[t].sections]]

\* No field name array of the tree holds undefined (every field move so far
\* named a field that was there).
NoUndefined(vo) ==
    \A t \in 1..Len(vo.tabs) :
        \A s \in 1..Len(vo.tabs[t].sections) :
            \A c \in 1..Len(vo.tabs[t].sections[s].columns) :
                \A k \in 1..Len(vo.tabs[t].sections[s].columns[c].fieldnames) :
                    vo.tabs[t].sections[s].columns[c].fieldnames[k] # Undefined

\* C5 (rearranging never corrupts the flat list): for every tree reached
\* from a loaded well-formed list by accepted section, column and field
\* moves, parsing the flattened list again gives the same tabs, the same
\* sections per tab in the same order, the same columns per section with
\* the same column break names and the same field names per column.
C5_FlattenedListParsesBack ==
    (doctype # NoDoctype /\ WellFormedMarkers(rawFields) /\ NoUndefined(virtualOrder))
        => TreeShape(buildVirtualOrder(reorderedFields(virtualOrder, shadowJSON)).tabs)
               = TreeShape(virtualOrder.tabs)

\* Every descriptor of the flattened list flat that is not at its index in
\* the pristine list has an idx entry in the change set chg.
PositionsRecorded(chg, flat) ==
    \A i \in 1..Len(flat) :
        FindIndexLast(rawFields, flat[i].fieldname) # i - 1
            => /\ flat[i].fieldname \in DOMAIN chg
               /\ "idx" \in DOMAIN chg[flat[i].fieldname]

\* C6 (order changes reach persistence): the change set handed to
\* save_field_changes on commit has an idx entry for every descriptor whose
\* index in the flattened tree differs from its index in the pristine list,
\* also when no property was edited.
C6_CommitSendsPositions ==
    lastOp.op = "doSaveChanges"
        => PositionsRecorded(Last(saveRequests),
                             reorderedFields(virtualOrder, shadowJSON))

\* C7 (position diff): when the change set has just been computed
\* (applyVirtualOrder with trackIdxChanges), every descriptor whose index in
\* the flattened list differs from its index in the pristine list has an
\* idx entry, and its value is the index in the flattened list.
C7_PositionDiff ==
    lastOp.op = "applyVirtualOrder"
        => /\ shadowJSON = reorderedFields(virtualOrder, shadowJSON)
           /\ PositionsRecorded(changes, shadowJSON)
           /\ \A i \in 1..Len(shadowJSON) :
                FindIndexLast(rawFields, shadowJSON[i].fieldname) # i - 1
                    => changes[shadowJSON[i].fieldname]["idx"] = i - 1

\* Sections [A, B, C] after moveSection(0, 2) and the change set
\* computation: the flattened list is B, b1, C, A, a1 and each of the five
\* descriptors has its new index as idx entry.
C7_Witness ==
    /\ rawFields = SectionScenarioList
    /\ nOps = 2
    /\ lastOp.op = "applyVirtualOrder"
    /\ FieldNames(shadowJSON) = <<"B", "b1", "C", "A", "a1">>
    /\ changes = [n \in {"A", "a1", "B", "b1", "C"} |->
                    [k \in {"idx"} |->
                        CASE n = "B" -> 0 [] n = "b1" -> 1 [] n = "C" -> 2
                          [] n = "A" -> 3 [] n = "a1" -> 4]]

\* C8 (diff minimality): a name is in the change set only if its index in
\* the flattened tree differs from its index in the pristine list or its
\* descriptor differs from the pristine one in some property.
C8_DiffMinimal ==
    \A name \in DOMAIN changes :
        \/ FindIndex(reorderedFields(virtualOrder, shadowJSON), name)
              # FindIndexLast(rawFields, name)
        \/ getFieldFromShadow(shadowJSON, name) # getFieldFromShadow(rawFields, name)

\* C9 (revert): after revertChanges the shadow list equals the pristine
\* list in content and order, the tree and the render tree are those built
\* from the pristine list, the change set is empty and hasChanges() is
\* false.
C9_Revert ==
    lastOp.op = "revertChanges"
        => /\ shadowJSON = rawFields
           /\ virtualOrder = buildVirtualOrder(rawFields)
           /\ structure = buildStructure(buildVirtualOrder(rawFields), rawFields)
           /\ changes = EmptyObj
           /\ ~hasChanges

\* A revert as third call, after a change was made and its commit issued
\* (a request is in flight, so hasChanges() was true before the revert).
C9_Witness ==
    /\ lastOp.op = "revertChanges"
    /\ nOps = 3
    /\ Len(saveRequests) = 1
    /\ Len(rawFields) >= 3

\* C10 (commit re-bases the session): after a successful persist the change
\* set is empty and the pristine list holds the committed state: every
\* property value that was sent is the value of that property in rawFields.
C10_CommitRebases ==
    lastOp.op = "saveSuccess"
        => /\ changes = EmptyObj
           /\ \A name \in DOMAIN lastOp.args[1] :
                \A property \in (DOMAIN lastOp.args[1][name]) \ {"idx"} :
                    /\ HasField(rawFields, name)
                    /\ FindField(rawFields, name)[property]
                          = lastOp.args[1][name][property]

\* The sections of a tree, over all tabs.
AllSections(tabs) ==
    {tabs[p[1]].sections[p[2]] :
        p \in {q \in (1..Len(tabs)) \X (1..MaxSectionsFrom(tabs, 1)) :
                  q[2] <= Len(tabs[q[1]].sections)}}

\* The width the descriptor list fields gives to a column of the tree: the
\* columns property of its column break, 0 when it has none.
MarkerWidth(fields, vColumn) ==
    IF vColumn.columnBreakFieldname # NoBreak /\ HasField(fields, vColumn.columnBreakFieldname)
    THEN FindField(fields, vColumn.columnBreakFieldname).columns
    ELSE 0

\* Sum of the fixed (> 0) widths of columns 1..N of a section of the tree.
RECURSIVE FixedSumFrom(_, _, _)
FixedSumFrom(fields, columns, c) ==
    IF c > Len(columns) THEN 0
    ELSE (IF c > 1 /\ MarkerWidth(fields, columns[c]) > 0
            THEN MarkerWidth(fields, columns[c]) ELSE 0)
         + FixedSumFrom(fields, columns, c + 1)

WithinBudget(fields, vo) ==
    \A section \in AllSections(vo.tabs) :
        FixedSumFrom(fields, section.columns, 1) <= GridColumns

\* The last call was an accepted width edit of one of the two selectors.
WidthEdited(op) ==
    op.op \in {"onColumnWidthChange", "panelOnColumnWidthChange"} /\ op.ok

\* C11 (width budget invariant): when every section's fixed widths sum to at
\* most 12 at load, then after an accepted width edit, by the inline
\* selector or by the properties panel, the fixed widths of columns 1..N of
\* every section sum to at most 12.
C11_WidthBudget ==
    (WidthEdited(lastOp) /\ WithinBudget(rawFields, buildVirtualOrder(rawFields)))
        => WithinBudget(shadowJSON, virtualOrder)

\* The inline selector was used on column columnIndex of section
\* sectionFieldname with a width that overflows the grid, as seen from the
\* state before the call.
Overflows(sectionFieldname, columnIndex, newWidth) ==
    LET columns == ColumnsOf(virtualOrder, sectionFieldname)
        others == FixedSumFrom(shadowJSON, columns, 1)
                    - (IF MarkerWidth(shadowJSON, columns[columnIndex + 1]) > 0
                       THEN MarkerWidth(shadowJSON, columns[columnIndex + 1]) ELSE 0)
    IN  newWidth > 0 /\ others + newWidth > GridColumns

\* C12 (overflow rejection): an inline width edit with newWidth > 0 for
\* which the other fixed widths of columns 1..N plus newWidth exceed 12 is
\* rejected, reports that total, and changes neither the shadow list, the
\* trees, the change set nor the dirty flags.
C12_OverflowRejected ==
    [][(lastOp'.op = "onColumnWidthChange" /\ Len(lastOp'.args) >= 3
            /\ Overflows(lastOp'.args[1], lastOp'.args[2], lastOp'.args[3]))
        => /\ ~lastOp'.ok
           /\ lastOp'.args[4] =
                 FixedSumFrom(shadowJSON, ColumnsOf(virtualOrder, lastOp'.args[1]), 1)
                    - MarkerWidth(shadowJSON,
                        ColumnsOf(virtualOrder, lastOp'.args[1])[lastOp'.args[2] + 1])
                    + lastOp'.args[3]
           /\ UNCHANGED dmVars
      ]_vars

\* One column fixed at 10: setting the second column (column index 2) to 5
\* was rejected with total 15, and nothing is recorded.
C12_Witness ==
    /\ rawFields = WidthScenarioList
    /\ lastOp = Op("onColumnWidthChange", FALSE, <<"S", 2, 5, 15>>)
    /\ shadowJSON = rawFields
    /\ changes = EmptyObj
    /\ ~hasChanges

\* Number of auto columns of a section: column 0 and every later column
\* without a fixed width.
AutoColumns(columns) ==
    Cardinality({c \in 1..Len(columns) : c = 1 \/ WidthNumber(columns[c].width) = 0})

\* Sum of the fixed widths of columns 1..N of a rendered section.
RECURSIVE RenderedFixedSum(_, _)
RenderedFixedSum(columns, c) ==
    IF c > Len(columns) THEN 0
    ELSE (IF c > 1 THEN WidthNumber(columns[c].width) ELSE 0)
         + RenderedFixedSum(columns, c + 1)

\* C13 (grid proportions): in every section of the render tree whose fixed
\* widths are in 1..11 and sum to at most 12, a fixed-width column gets
\* width/12 of the row and every auto column, column 0 included, gets
\* (12 - sum of fixed widths) / (number of auto columns) / 12.
C13_GridProportions ==
    \A section \in AllSections(structure.tabs) :
        LET columns == section.columns
            fixed == RenderedFixedSum(columns, 1)
        IN  fixed <= GridColumns =>
                \A c \in 1..Len(columns) :
                    RatioEq(calculateColumnVisualWidth(columns[c], c - 1, columns),
                            IF c > 1 /\ WidthNumber(columns[c].width) > 0
                            THEN Ratio(WidthNumber(columns[c].width) * 100, GridColumns)
                            ELSE Ratio((GridColumns - fixed) * 100,
                                       AutoColumns(columns) * GridColumns))

\* The sections of the current tab of a tree.
CurrentSections(vo) ==
    IF vo.currentTab + 1 > Len(vo.tabs) THEN <<>>
    ELSE vo.tabs[vo.currentTab + 1].sections

\* C14 (moveSection is a remove-and-reinsert within one tab): after an
\* accepted moveSectionInCurrentTab(from, to) the section that was at index
\* from is at index to, the other sections of the tab keep their relative
\* order, the tab has as many sections as before and every other tab is
\* unchanged.
C14_MoveSection ==
    [][(lastOp'.op = "moveSectionInCurrentTab" /\ lastOp'.ok /\ nOps' = nOps + 1)
        => LET before == CurrentSections(virtualOrder)
               after == CurrentSections(virtualOrder')
               fromIndex == lastOp'.args[1]
               toIndex == lastOp'.args[2]
           IN  /\ Len(after) = Len(before)
               /\ after[toIndex + 1] = before[fromIndex + 1]
               /\ RemoveAt(after, toIndex) = RemoveAt(before, fromIndex)
               /\ Len(virtualOrder'.tabs) = Len(virtualOrder.tabs)
               /\ virtualOrder'.currentTab = virtualOrder.currentTab
               /\ \A t \in 1..Len(virtualOrder.tabs) :
                    t # virtualOrder.currentTab + 1
                        => virtualOrder'.tabs[t] = virtualOrder.tabs[t]
      ]_vars

\* Sections [A, B, C] after moveSection(0, 2): [B, C, A].
C14_Witness ==
    /\ rawFields = SectionScenarioList
    /\ nOps = 1
    /\ lastOp = Op("moveSectionInCurrentTab", TRUE, <<0, 2>>)
    /\ FieldNames(CurrentSections(virtualOrder)) = <<"B", "C", "A">>
    /\ FieldNames(structure.tabs[1].sections) = <<"B", "C", "A">>

\* from or to is outside [0, count), or from = to.
InvalidMove(count, fromIndex, toIndex) ==
    \/ fromIndex < 0 \/ fromIndex >= count
    \/ toIndex < 0 \/ toIndex >= count
    \/ fromIndex = toIndex

\* The call returned false, changed nothing of the data manager and did not
\* fire the change callback (which enables the Preview Changes button).
RejectedWithoutEffect ==
    /\ ~lastOp'.ok
    /\ UNCHANGED <<rawFields, shadowJSON, virtualOrder, structure, changes,
                   hasUnsavedChanges, hasOrderChanges, previewBtnDisabled>>

\* C15 (invalid section and column moves are rejected without effect): a
\* moveSectionInCurrentTab or moveColumnInSection call with from or to
\* outside [0, count), with from = to, or (moveColumnInSection) with an
\* unknown section name returns false and leaves both trees, the shadow
\* list, the change set and the dirty flags unchanged, and does not fire the
\* change callback.
C15_InvalidMovesRejected ==
    [][/\ lastOp'.op = "moveSectionInCurrentTab" =>
            \A fromIndex, toIndex \in IndexInputs(MaxSectionsIn(virtualOrder)) :
                (/\ InvalidMove(Len(CurrentSections(virtualOrder)), fromIndex, toIndex)
                 /\ moveSectionInCurrentTab(fromIndex, toIndex))
                    => RejectedWithoutEffect
       /\ lastOp'.op = "moveColumnInSection" =>
            \A name \in NamesTried(virtualOrder) :
                \A fromIndex, toIndex \in IndexInputs(Len(ColumnsOf(virtualOrder, name))) :
                    (/\ \/ name \notin SectionNames(virtualOrder)
                        \/ InvalidMove(Len(ColumnsOf(virtualOrder, name)), fromIndex, toIndex)
                     /\ moveColumnInSection(name, fromIndex, toIndex))
                        => RejectedWithoutEffect
      ]_vars

\* A column move was rejected after a move that had taken effect.
C15_Witness ==
    /\ lastOp = Op("moveColumnInSection", FALSE, <<>>)
    /\ nOps = 1
    /\ hasOrderChanges
    /\ ~previewBtnDisabled

\* An index into a field name array of the given length that names no
\* element.
NoElement(len, index) == index < 0 \/ index >= len

\* C16 (invalid field moves are rejected without effect): a
\* moveFieldInColumn or moveFieldToColumn call with a source field index
\* outside [0, length of the source column's field names), a target index
\* outside the target column's range, or an unknown section or column
\* returns false and leaves every field name array, the change set and the
\* dirty flags unchanged.
C16_InvalidFieldMovesRejected ==
    [][/\ lastOp'.op = "moveFieldInColumn" =>
            \A name \in NamesTried(virtualOrder) :
                \A columnIndex \in IndexInputs(Len(ColumnsOf(virtualOrder, name))) :
                    \A fromFieldIndex, toFieldIndex \in
                            IndexInputs(FieldCount(ColumnsOf(virtualOrder, name), columnIndex)) :
                        (/\ \/ name \notin SectionNames(virtualOrder)
                            \/ NoElement(Len(ColumnsOf(virtualOrder, name)), columnIndex)
                            \/ NoElement(FieldCount(ColumnsOf(virtualOrder, name), columnIndex),
                                         fromFieldIndex)
                            \/ NoElement(FieldCount(ColumnsOf(virtualOrder, name), columnIndex),
                                         toFieldIndex)
                         /\ moveFieldInColumn(name, columnIndex, fromFieldIndex, toFieldIndex))
                            => RejectedWithoutEffect
       /\ lastOp'.op = "moveFieldToColumn" =>
            \A name \in NamesTried(virtualOrder) :
                \A fromColumnIndex, toColumnIndex \in
                        IndexInputs(Len(ColumnsOf(virtualOrder, name))) :
                    \A fieldIndex \in
                            IndexInputs(FieldCount(ColumnsOf(virtualOrder, name), fromColumnIndex)),
                       toFieldIndex \in
                            IndexInputs(FieldCount(ColumnsOf(virtualOrder, name), toColumnIndex)) :
                        (/\ \/ name \notin SectionNames(virtualOrder)
                            \/ NoElement(Len(ColumnsOf(virtualOrder, name)), fromColumnIndex)
                            \/ NoElement(Len(ColumnsOf(virtualOrder, name)), toColumnIndex)
                            \/ NoElement(FieldCount(ColumnsOf(virtualOrder, name),
                                                    fromColumnIndex), fieldIndex)
                            \/ toFieldIndex < 0
                            \/ toFieldIndex >
                                  FieldCount(ColumnsOf(virtualOrder, name), toColumnIndex)
                         /\ moveFieldToColumn(name, fromColumnIndex, fieldIndex, toColumnIndex,
                                              toFieldIndex))
                            => RejectedWithoutEffect
      ]_vars

\* C17 (unknown identifier): updateFieldProperty on a name that is not in
\* the shadow list returns false, records no change set entry, changes no
\* descriptor, leaves hasChanges() as it was and does not fire the change
\* callback.
C17_UnknownIdentifier ==
    [][lastOp'.op = "updateFieldProperty" =>
        \A name \in CallableNames, property \in Properties :
            \A value \in PropertyValues(property) :
                (~HasField(shadowJSON, name) /\ updateFieldProperty(name, property, value))
                    => RejectedWithoutEffect
      ]_vars

\* An edit of an unknown name was rejected while an earlier edit is pending.
C17_Witness ==
    /\ lastOp = Op("updateFieldProperty", FALSE, <<>>)
    /\ nOps = 1
    /\ hasUnsavedChanges
    /\ DOMAIN changes # {}
    /\ UnknownName \notin DOMAIN changes

\* Every entry of the change set other than the position entry has the
\* value its property has on its descriptor in the shadow list.
ChangesMirrorShadow(chg, fields) ==
    \A name \in DOMAIN chg :
        \A property \in (DOMAIN chg[name]) \ {"idx"} :
            /\ HasField(fields, name)
            /\ property \in DOMAIN FindField(fields, name)
            /\ FindField(fields, name)[property] = chg[name][property]

\* The steps that empty the change set: load, revert, successful persist.
ClearsChanges(op) == op.op \in {"loadDocType", "revertChanges", "saveSuccess"}

\* C18 (the change set mirrors the shadow list): every accepted
\* updateFieldProperty(name, p, v) is recorded under name, a recorded entry
\* stays until the next load, revert or successful persist, and in every
\* state each entry (name, p) other than the position entry equals the
\* current value of p on descriptor name in the shadow list.
C18_ChangesMirrorShadow ==
    [][/\ (lastOp'.op = "updateFieldProperty" /\ lastOp'.ok) =>
            \A name \in CallableNames, property \in Properties :
                \A value \in PropertyValues(property) :
                    updateFieldProperty(name, property, value)
                        => /\ name \in DOMAIN changes'
                           /\ property \in DOMAIN changes'[name]
                           /\ changes'[name][property] = value
       /\ ~ClearsChanges(lastOp') =>
            \A name \in DOMAIN changes :
                \A property \in (DOMAIN changes[name]) \ {"idx"} :
                    /\ name \in DOMAIN changes'
                    /\ property \in DOMAIN changes'[name]
       /\ ChangesMirrorShadow(changes', shadowJSON')
      ]_vars

\* C19 (the pristine list is never mutated after load): no step other than
\* a load (no property edit, move, change set computation, revert, tab
\* switch or save) changes rawFields: its length, its order and every
\* property value of its descriptors stay as loaded; an edit of a shadow
\* descriptor does not show in it.
C19_PristineFrame ==
    [][lastOp'.op # "loadDocType" => rawFields' = rawFields]_vars

\* An edit, a column move and a change set computation have made the shadow
\* list differ from the pristine list in a value and in its order.
C19_Witness ==
    /\ nOps = 3
    /\ lastOp.op = "applyVirtualOrder"
    /\ rawFields = ColumnScenarioList
    /\ HasField(shadowJSON, "f1")
    /\ FindField(shadowJSON, "f1").label = "y"
    /\ FindField(rawFields, "f1").label = "x"
    /\ FieldNames(shadowJSON) # FieldNames(rawFields)

\* Every column of index >= 1 names a Column Break of the descriptor list.
MarkersExist(fields, columns) ==
    \A c \in 2..Len(columns) :
        /\ HasField(fields, columns[c].columnBreakFieldname)
        /\ isColumnBreak(FindField(fields, columns[c].columnBreakFieldname).fieldtype)

\* C20 (tree invariant on every parser output): for every loaded list,
\* lists whose first descriptor is a Column Break or that have a Column
\* Break directly after a Tab Break included, every section of the tree
\* built by buildVirtualOrder has no column break name on column 0 and, on
\* every column of index >= 1, the name of a Column Break that is in the
\* shadow list.
C20_ParserTreeInvariant ==
    lastOp.op = "loadDocType" =>
        \A section \in AllSections(virtualOrder.tabs) :
            /\ MarkerInvariant(section.columns)
            /\ MarkersExist(shadowJSON, section.columns)

\* The identifiers a tree holds, in tree order: per tab its name (unless it
\* is the default tab), per section its name (unless default), per column
\* its column break name (if it has one) and its field names.
RECURSIVE ColumnIds(_, _)
ColumnIds(columns, c) ==
    IF c > Len(columns) THEN <<>>
    ELSE (IF columns[c].columnBreakFieldname # NoBreak
            THEN <<columns[c].columnBreakFieldname>> ELSE <<>>)
         \o columns[c].fieldnames
         \o ColumnIds(columns, c + 1)

RECURSIVE SectionIds(_, _)
SectionIds(sections, s) ==
    IF s > Len(sections) THEN <<>>
    ELSE (IF sections[s].fieldname # DefaultSectionName
            THEN <<sections[s].fieldname>> ELSE <<>>)
         \o ColumnIds(sections[s].columns, 1)
         \o SectionIds(sections, s + 1)

RECURSIVE TabIds(_, _)
TabIds(tabs, t) ==
    IF t > Len(tabs) THEN <<>>
    ELSE (IF tabs[t].fieldname # DefaultTabName THEN <<tabs[t].fieldname>> ELSE <<>>)
         \o SectionIds(tabs[t].sections, 1)
         \o TabIds(tabs, t + 1)

TreeIds(vo) == TabIds(vo.tabs, 1)

\* Number of positions of ids that hold name.
Occurrences(ids, name) == Cardinality({k \in 1..Len(ids) : ids[k] = name})

\* The columns of a tree, over all sections.
AllColumns(tabs) ==
    UNION {{section.columns[c] : c \in 1..Len(section.columns)} :
            section \in AllSections(tabs)}

\* The descriptor after position i is a marker that closes what descriptor
\* i opened (or the list ends there): nothing was put into it.
ClosedAtOnce(fields, i, closers) ==
    i = Len(fields) \/ fields[i + 1].fieldtype \in closers

\* A descriptor's name sits in the tree at the place of its type.
PlacedByType(vo, field) ==
    IF isTabBreak(field.fieldtype)
    THEN \E t \in 1..Len(vo.tabs) : vo.tabs[t].fieldname = field.fieldname
    ELSE IF isSectionBreak(field.fieldtype)
    THEN \E section \in AllSections(vo.tabs) : section.fieldname = field.fieldname
    ELSE IF isColumnBreak(field.fieldtype)
    THEN \E column \in AllColumns(vo.tabs) : column.columnBreakFieldname = field.fieldname
    ELSE \E column \in AllColumns(vo.tabs) :
            \E k \in 1..Len(column.fieldnames) : column.fieldnames[k] = field.fieldname

\* C21 (the parser discards nothing): after a load of a list with unique
\* names, each descriptor's name occurs exactly once in the tree, at the
\* place of its type (tab, section, column break or field name); a data
\* descriptor that comes first lands in the default tab, section and
\* column; and a marker directly followed by a marker that closes it (or by
\* the end of the list) still has its empty tab, section or column.
C21_ParserKeepsAll ==
    lastOp.op = "loadDocType" =>
        LET ids == TreeIds(virtualOrder)
            tabs == virtualOrder.tabs
        IN  /\ Len(ids) = Len(rawFields)
            /\ \A i \in 1..Len(rawFields) :
                /\ Occurrences(ids, rawFields[i].fieldname) = 1
                /\ PlacedByType(virtualOrder, rawFields[i])
            /\ (Len(rawFields) > 0 /\ rawFields[1].fieldtype = Data) =>
                /\ tabs[1].fieldname = DefaultTabName
                /\ tabs[1].sections[1].fieldname = DefaultSectionName
                /\ tabs[1].sections[1].columns[1].columnBreakFieldname = NoBreak
                /\ tabs[1].sections[1].columns[1].fieldnames[1] = rawFields[1].fieldname
            /\ \A i \in 1..Len(rawFields) :
                /\ (isTabBreak(rawFields[i].fieldtype)
                        /\ ClosedAtOnce(rawFields, i, {TabBreak}))
                    => \E t \in 1..Len(tabs) :
                            /\ tabs[t].fieldname = rawFields[i].fieldname
                            /\ tabs[t].sections = <<>>
                /\ (isSectionBreak(rawFields[i].fieldtype)
                        /\ ClosedAtOnce(rawFields, i, {TabBreak, SectionBreak}))
                    => \E section \in AllSections(tabs) :
                            /\ section.fieldname = rawFields[i].fieldname
                            /\ Len(section.columns) = 1
                            /\ section.columns[1].fieldnames = <<>>
                /\ (isColumnBreak(rawFields[i].fieldtype)
                        /\ ClosedAtOnce(rawFields, i, {TabBreak, SectionBreak, ColumnBreak}))
                    => \E column \in AllColumns(tabs) :
                            /\ column.columnBreakFieldname = rawFields[i].fieldname
                            /\ column.fieldnames = <<>>

\* A list of full length was parsed that opens with two data descriptors
\* (default containers) and ends with a marker directly after a marker.
C21_Witness ==
    /\ lastOp.op = "loadDocType"
    /\ Len(rawFields) = RoundTripLen
    /\ rawFields[1].fieldtype = Data
    /\ rawFields[2].fieldtype = Data
    /\ isTabBreak(rawFields[3].fieldtype)
    /\ isSectionBreak(rawFields[4].fieldtype)
    /\ isColumnBreak(rawFields[5].fieldtype)
    /\ Len(virtualOrder.tabs) = 2
    /\ virtualOrder.tabs[1].sections[1].columns[1].fieldnames = <<"a", "b">>
    /\ Len(virtualOrder.tabs[2].sections[1].columns) = 2

IsName(id) == id # Undefined

InShadow(name) == HasField(shadowJSON, name)

\* A render tree has the shape of the tree vo and each of its columns lists
\* the descriptors of the column's field names that resolve in the shadow
\* list, in the column's order.
RendersResolved(st, vo) ==
    /\ Len(st.tabs) = Len(vo.tabs)
    /\ \A t \in 1..Len(vo.tabs) :
        /\ Len(st.tabs[t].sections) = Len(vo.tabs[t].sections)
        /\ \A s \in 1..Len(vo.tabs[t].sections) :
            LET vColumns == vo.tabs[t].sections[s].columns
                columns == st.tabs[t].sections[s].columns
            IN  /\ Len(columns) = Len(vColumns)
                /\ \A c \in 1..Len(vColumns) :
                    LET resolved == SelectSeq(vColumns[c].fieldnames, InShadow)
                    IN  /\ Len(columns[c].fields) = Len(resolved)
                        /\ \A k \in 1..Len(resolved) :
                              columns[c].fields[k] = FindField(shadowJSON, resolved[k])

\* The last call rebuilt the render tree from the tree and the shadow list.
Rebuilt(op) ==
    /\ op.ok
    /\ op.op \in {"loadDocType", "updateFieldProperty", "revertChanges",
                  "moveSectionInCurrentTab", "moveColumnInSection",
                  "moveFieldInColumn", "moveFieldToColumn"}

\* Some identifier of the tree does not resolve in the shadow list.
Dangling(vo) == \E k \in 1..Len(TreeIds(vo)) : ~InShadow(TreeIds(vo)[k])

\* C23 (dangling references are tolerated): for every tree and shadow list
\* buildStructure yields a render tree with as many tabs, sections per tab
\* and columns per section as the tree, each render column listing exactly
\* the tree's field names that resolve in the shadow list, in tree order; a
\* name that is not in the shadow list is skipped.
C23_DanglingTolerated ==
    /\ RendersResolved(buildStructure(virtualOrder, shadowJSON), virtualOrder)
    /\ Rebuilt(lastOp) => RendersResolved(structure, virtualOrder)

\* A field move left a name that does not resolve in a column that also
\* holds a name that does; the render tree was rebuilt from it.
C23_Witness ==
    /\ lastOp = Op("moveFieldToColumn", TRUE, <<>>)
    /\ Dangling(virtualOrder)
    /\ \E column \in AllColumns(virtualOrder.tabs) :
        /\ Len(column.fieldnames) > 1
        /\ \E k \in 1..Len(column.fieldnames) : ~InShadow(column.fieldnames[k])
        /\ \E k \in 1..Len(column.fieldnames) : InShadow(column.fieldnames[k])

\* The width the render tree shows for a column break whose columns
\* property is n (cbField.columns || 'auto').
ShownWidth(n) == IF n = 0 THEN AutoWidth ELSE FixedWidth(n)

\* The render tree shows value wherever property of descriptor name is
\* displayed: a tab's label, a section's label and collapsible flag, a
\* column's width, and the field descriptors of the columns.
ShowsEverywhere(st, name, property, value) ==
    \A t \in 1..Len(st.tabs) :
        /\ (st.tabs[t].fieldname = name /\ property = "label")
                => st.tabs[t].label = value
        /\ \A s \in 1..Len(st.tabs[t].sections) :
            LET section == st.tabs[t].sections[s]
            IN  /\ (section.fieldname = name /\ property = "label")
                        => section.label = value
                /\ (section.fieldname = name /\ property = "collapsible")
                        => section.collapsible = value
                /\ \A c \in 1..Len(section.columns) :
                    /\ (section.columns[c].columnBreakFieldname = name
                            /\ property = "columns")
                        => section.columns[c].width = ShownWidth(value)
                    /\ \A k \in 1..Len(section.columns[c].fields) :
                        section.columns[c].fields[k].fieldname = name
                            => section.columns[c].fields[k][property] = value

\* C24 (no stale property copies): after an accepted
\* updateFieldProperty(name, p, v) the render tree shows v wherever
\* property p of descriptor name is displayed: on a field descriptor, as a
\* section's label or collapsible flag, as a column's width, and as the
\* label of the tab of a Tab Break.
C24_NoStaleCopies ==
    [][(lastOp'.op = "updateFieldProperty" /\ lastOp'.ok) =>
        \A name \in CallableNames, property \in Properties :
            \A value \in PropertyValues(property) :
                updateFieldProperty(name, property, value)
                    => ShowsEverywhere(structure', name, property, value)
      ]_vars

\* C25 (a failed load leaves the prior session untouched): when loadDocType
\* rejects because the received field list does not parse into a structure
\* (invalid JSON, JSON that is not a list, a list with an element that is
\* not a descriptor), rawFields, shadowJSON, virtualOrder, the render tree,
\* the change set and the doctype name keep the values they had.
C25_FailedLoadNoEffect ==
    [][(lastOp'.op = "loadDocType" /\ ~lastOp'.ok)
        => UNCHANGED <<rawFields, shadowJSON, virtualOrder, structure, changes, doctype>>
      ]_vars

\* C26 (load enters the Loaded state): whenever a load completes
\* successfully, a second load in a session with pending edits or moves
\* included, the pristine and the shadow list are the newly loaded list, the
\* tree is the parse of it, the change set is empty and hasChanges() is
\* false.
C26_LoadEntersLoaded ==
    [][(lastOp'.op = "loadDocType" /\ lastOp'.ok) =>
        \A doctypeName \in DoctypeNames, fields \in ScenarioLists :
            loadDocTypeResponse(doctypeName, fields)
                => /\ rawFields' = fields
                   /\ shadowJSON' = fields
                   /\ doctype' = doctypeName
                   /\ virtualOrder' = buildVirtualOrder(fields)
                   /\ structure' = buildStructure(virtualOrder', fields)
                   /\ changes' = EmptyObj
                   /\ ~hasUnsavedChanges'
                   /\ ~hasOrderChanges'
                   /\ previewBtnDisabled'
      ]_vars

\* A second load, of another doctype, made while the session had pending
\* changes.
C26_Witness ==
    /\ lastOp.op = "loadDocType"
    /\ lastOp.ok
    /\ lastOp.args = <<TRUE>>
    /\ doctype = "Other"
    /\ rawFields = SectionScenarioList
    /\ shadowJSON = rawFields
    /\ changes = EmptyObj
    /\ ~hasChanges

\* The four moves of the data manager.
MoveNames ==
    {"moveSectionInCurrentTab", "moveColumnInSection", "moveFieldInColumn",
     "moveFieldToColumn"}

Moved(op) == op.op \in MoveNames /\ op.ok

\* C27 (separation of order and data): every accepted move (section,
\* column, field within a column, field across columns) leaves the shadow
\* list (contents and order) and the change set unchanged, and every
\* accepted updateFieldProperty leaves the virtualOrder tree unchanged.
C27_OrderDataSeparation ==
    [][/\ Moved(lastOp') => UNCHANGED <<shadowJSON, changes>>
       /\ (lastOp'.op = "updateFieldProperty" /\ lastOp'.ok) => UNCHANGED virtualOrder
      ]_vars

\* An edit made after a column move: the tree differs from the parse of the
\* shadow list, whose order is still the loaded one, and the change set has
\* the edit only.
C27_Witness ==
    /\ lastOp.op = "updateFieldProperty"
    /\ lastOp.ok
    /\ nOps = 2
    /\ hasOrderChanges
    /\ rawFields = ColumnScenarioList
    /\ FieldNames(shadowJSON) = FieldNames(rawFields)
    /\ virtualOrder # buildVirtualOrder(shadowJSON)
    /\ DOMAIN changes = {"f1"}
    /\ DOMAIN changes["f1"] = {"label"}

\* C28 (flattening is a pure projection): getUpdatedFieldsJSON /
\* applyVirtualOrder leaves the shadow list with the same descriptors in the
\* same order as before the call and leaves the virtualOrder tree
\* unchanged; the order of the shadow list changes only on load and revert.
C28_FlattenIsProjection ==
    [][/\ lastOp'.op = "applyVirtualOrder" => UNCHANGED <<shadowJSON, virtualOrder>>
       /\ lastOp'.op \notin {"loadDocType", "revertChanges"}
            => FieldNames(shadowJSON') = FieldNames(shadowJSON)
      ]_vars

\* The steps that end the Dirty state: successful persist, revert, load.
EndsDirty(op) == op.op \in {"saveSuccess", "revertChanges", "loadDocType"}

C30_OneRequestInFlight ==
    /\ Len(saveRequests) <= 1
    /\ saveRequests # <<>> => previewBtnDisabled

\* The calls that edit the layout: the property edit and the four moves.
EditNames == MoveNames \cup {"updateFieldProperty"}

\* C31 (no edit is lost across a persist): when a property edit or a move
\* succeeds while a persist request is in flight (for a property edit: one
\* that leaves the change set different from the one that was sent) and the
\* success response of that request is handled next, the edit is still
\* pending afterwards: hasChanges() is true, and the change set is not empty
\* if the edit was a property edit.
C31_NoEditLost ==
    [][(/\ lastOp'.op = "saveSuccess"
        /\ lastOp.op \in EditNames
        /\ lastOp.ok
        /\ lastOp.op = "updateFieldProperty" => changes # lastOp'.args[1])
            => /\ hasChanges'
               /\ lastOp.op = "updateFieldProperty" => changes' # EmptyObj]_vars

C33_InverseColumnMove ==
    [][(/\ ColumnMoved(lastOp) /\ nOps = 1
        /\ ColumnMoved(lastOp') /\ nOps' = 2
        /\ lastOp'.args = <<lastOp.args[1], lastOp.args[3], lastOp.args[2]>>
        /\ MarkerInvariant(ColumnsOf(buildVirtualOrder(rawFields), lastOp.args[1])))
        => /\ ColumnsOf(virtualOrder', lastOp.args[1])
                = ColumnsOf(buildVirtualOrder(rawFields), lastOp.args[1])
           /\ reorderedFields(virtualOrder', shadowJSON')
                = reorderedFields(buildVirtualOrder(rawFields), shadowJSON)]_vars

\* The sections of the tree other than the s-th one of tab t are the same
\* before and after the step.
OtherSectionsUnchanged(t, s) ==
    \A p \in (1..Len(virtualOrder.tabs)) \X (1..MaxSectionsIn(virtualOrder)) :
        (p[2] <= Len(virtualOrder.tabs[p[1]].sections) /\ p # <<t, s>>)
            => virtualOrder'.tabs[p[1]].sections[p[2]]
                  = virtualOrder.tabs[p[1]].sections[p[2]]

\* The call issued for the s-th section shown was accepted and changed the
\* columns of that section and of no other.
Addressed(s) ==
    /\ lastOp'.ok
    /\ ShownColumns(s)' # ShownColumns(s)
    /\ OtherSectionsUnchanged(structure.currentTab + 1, s)

\* C34 (a move addresses the section it names): a moveColumnInSection,
\* moveFieldInColumn or moveFieldToColumn call issued with the name of a
\* section shown in the current tab (a section the parser made included)
\* and with indices valid for that section is accepted and changes the
\* columns of that section and of no other section of any tab.
C34_MoveAddressesNamedSection ==
    [][lastOp'.op \in MoveNames \ {"moveSectionInCurrentTab"}
        => \A s \in 1..Len(RenderedSections) :
            /\ \A fromIndex, toIndex \in ValidIndices(Len(ShownColumns(s))) :
                (/\ fromIndex # toIndex
                 /\ moveColumnInSection(RenderedSections[s].fieldname,
                                        fromIndex, toIndex))
                    => Addressed(s)
            /\ \A columnIndex \in ValidIndices(Len(ShownColumns(s))) :
                \A fromFieldIndex, toFieldIndex \in
                        ValidIndices(FieldCount(ShownColumns(s), columnIndex)) :
                    (/\ fromFieldIndex # toFieldIndex
                     /\ moveFieldInColumn(RenderedSections[s].fieldname, columnIndex,
                                          fromFieldIndex, toFieldIndex))
                        => Addressed(s)
            /\ \A fromColumnIndex, toColumnIndex \in ValidIndices(Len(ShownColumns(s))) :
                \A fieldIndex \in
                        ValidIndices(FieldCount(ShownColumns(s), fromColumnIndex)),
                   toFieldIndex \in 0..FieldCount(ShownColumns(s), toColumnIndex) :
                    (/\ fromColumnIndex # toColumnIndex
                     /\ moveFieldToColumn(RenderedSections[s].fieldname,
                                          fromColumnIndex, fieldIndex, toColumnIndex,
                                          toFieldIndex))
                        => Addressed(s)]_vars

C36_CurrentTabValid ==
    structure.tabs # <<>>
        => /\ virtualOrder.currentTab \in ValidIndices(Len(virtualOrder.tabs))
           /\ structure.currentTab \in ValidIndices(Len(structure.tabs))
           /\ structure.currentTab = virtualOrder.currentTab

\* C37 (JSON editor form): the Update Properties button is on the form
\* only while the editor text is the text that last passed
\* validate_json_for_customizations, and update_properties is called only
\* with that text as json_str; so a text edited after the validation request
\* was issued, also while the request is in flight, is not offered for
\* update before it is validated again.
C37_UpdateOnlyValidatedText ==
    [][/\ frm'.update_button => frm'.json_editor = frm'.passed
       /\ Len(frm'.updating) > Len(frm.updating)
            => frm'.updating[Len(frm'.updating)] = frm.passed]_vars

====
